---- MODULE Spec2Model ----
(***************************************************************************)
(* Verification model of the mcp-service retrieval core:                   *)
(*   chunker.chunkText, ragvec.LocalEmbeddingProvider (BuildVocab, Embed,  *)
(*   textToVector, tokenizeText) and ragclassic (tokenize, buildIndex,     *)
(*   bm25Score, cosineTF, Search).                                         *)
(* Each component has its own specification over its own variables; the    *)
(* variables of the other components stay at their initial values.         *)
(***************************************************************************)
EXTENDS Integers, Sequences, FiniteSets, TLC

\* ------------------------------------------------------------------ bounds
MaxLen == 25        \* longest text given to chunkText, in runes
MaxSize == 10       \* largest size argument given to chunkText
MaxOverlap == 11    \* largest overlap argument given to chunkText
MaxChars == 5       \* longest text given to the two tokenizers, in runes
MaxWords == 2       \* most words in a text given to the provider
MaxDocs == 3        \* most texts in a corpus given to BuildVocab
MaxDim == 2         \* largest configured embedding dimension
MaxCalls == 2       \* most calls made on one provider
MaxConcTerms == 2   \* most distinct terms in the texts of concurrent calls
MaxConcCalls == 3   \* most Embed calls started by the concurrent threads
MaxFiles == 3       \* most files under the docs directory
MaxDocTerms == 2    \* most terms in a document
MaxQueryTerms == 2  \* most terms in a query
MaxK == 3           \* largest k of a Search
MaxN == 5           \* most documents of an index in bm25Score's term
MaxTf == 3          \* largest term frequency in bm25Score's term
MaxEntries == 3     \* most entries under the root of a directory walk
MaxBucketDim == 10  \* largest p.dim of the hash bucket computation
MaxMessages == 3    \* most messages the request loop reads
MaxSnipText == 6    \* longest text given to snippet, in characters
MaxSnipTerms == 2   \* most query terms given to snippet
MaxProjects == 3    \* most projects in the collection
MaxIngest == 6      \* most chunks handed to IngestDocs
MaxBatchSize == 4   \* largest indexing.batch_size
MaxLines == 3          \* requests written to stdin in one run
MaxPath == 5        \* longest path given to the project derivations, in characters

\* ------------------------------------------------------- program constants
DefaultSize == 800  \* chunkText: size <= 0 means 800

VARIABLES
    \* chunker.chunkText: arguments, locals and position
    n,          \* len(runes)
    sizeArg,    \* the size argument as passed
    overlapArg, \* the overlap argument as passed
    size,       \* local size after defaulting
    overlap,    \* local overlap after clamping
    start,      \* loop variable
    chunks,     \* windows appended so far, each <<start, end>> = runes[start:end]
    cpc,        \* "entry" | "loop" | "done"
    \* the two tokenizers applied to one text
    tokText,    \* the input text
    idxTokens,  \* ragclassic.tokenize(text)
    embTokens,  \* ragvec.tokenizeText(text)
    tpc,        \* "input" | "done"
    \* ragvec.LocalEmbeddingProvider and the last call made on it
    vocab,      \* p.vocab: term -> index
    idf,        \* p.idf: term -> the argument of math.Log, <<num, den>>
    vocabSize,  \* p.vocabSize
    dim,        \* p.dim
    calls,      \* calls made so far
    lastCall,   \* the last call: its arguments and what it returned
    \* Embed calls running concurrently on the shared provider
    shVocab,    \* p.vocab
    shIdf,      \* the terms that have an entry in p.idf
    shSize,     \* p.vocabSize
    th,         \* each thread's position in Embed and what it still has to do
    started,    \* Embed calls started so far
    fatal,      \* the runtime ended the process
    racyRead,   \* some call read the maps while another was partway through writing
    \* lexical search
    index,      \* the Inverted index (idx)
    spc,        \* "new" before LoadIndexFromConfig, "built" after, "searched" after Search
    lastSearch, \* the Search: its arguments and what it returned
    \* bm25Score's term
    bmArgs,     \* N, df, docLen and totalLen of the index
    bmHist,     \* the term's value for tf = 0, 1, ...
    \* directory walk
    wTree,      \* the entries under the root, in walk order
    wCfg,       \* FollowSymlinks, includeCode, and whether MaxFileKB > 0
    wPos,       \* the entry the walk calls the function for next
    wOut,       \* out: the entries appended, in order
    wReads,     \* the os.ReadFile calls that returned bytes, and from where
    wErr,       \* the walk ended with an error
    \* hash bucket
    bkArgs,     \* idx, h and p.dim of one round of the hashing loop
    bkPos,      \* pos after line 1252, -1 before
    \* MCP server
    noQdrant,   \* -no-qdrant or MCP_NO_QDRANT=1
    srvPc,      \* where main is
    health,     \* the outcomes of q.HealthCheck() at start-up, in order
    rag,        \* the *VecRAG of main: "nil" or "ready"
    reads,      \* what rpc.Read returned, in order
    out,        \* the responses written to stdout, each with the read it answers
    ragCalls,   \* calls of VecRAG methods made by tools
    probes,     \* Qdrant probes made by status_get
    \* HTTP API
    hKey,       \* conf.HTTP.APIKey
    hPc,        \* "listening" until the request is answered
    hReq,       \* the request
    hStatus,    \* the status code written
    hRan,       \* the route's handler was called
    \* snippet
    snArgs,     \* text, q and max of one snippet call
    snOut,      \* what snippet computed, <<>> before
    \* project listing
    lpArgs,     \* the collection's project names and prefix, offset, limit
    lpOut,      \* what ListProjectsFiltered returned, <<>> before
    \* ingestion
    igN,        \* len(chunks)
    igBatch,    \* batchSize
    igI,        \* i of the loop
    igTotal,    \* total
    igEmbedded, \* the batches handed to Embed, as chunk numbers
    igUpserted, \* the batches handed to UpsertPoints
    igPc,       \* where IngestDocs is
    igRet,      \* what IngestDocs returned
    \* StdioRPC.Read
    stdinLines, \* lengths in bytes of the request lines the client sends
    stdinSent,  \* lines written to the pipe so far
    stdinClosed, \* the client closed its end
    rdTaken,    \* bytes taken out of stdin by Read calls
    rdReturned, \* lines returned by Read calls, by position in stdinLines
    rdAvail,    \* bytes waiting on stdin at each Read that returned a request
    rdEof,      \* a Read call reported EOF
    \* project of a path
    pjPath,     \* the payload path of a chunk
    pjOut       \* the project each derivation returns for it, <<>> before

chunkVars == <<n, sizeArg, overlapArg, size, overlap, start, chunks, cpc>>
tokVars == <<tokText, idxTokens, embTokens, tpc>>
provVars == <<vocab, idf, vocabSize, dim, calls, lastCall>>
concVars == <<shVocab, shIdf, shSize, th, started, fatal, racyRead>>
searchVars == <<index, spc, lastSearch>>
bm25Vars == <<bmArgs, bmHist>>
walkVars == <<wTree, wCfg, wPos, wOut, wReads, wErr>>
bucketVars == <<bkArgs, bkPos>>
srvVars == <<noQdrant, srvPc, health, rag, reads, out, ragCalls, probes>>
httpVars == <<hKey, hPc, hReq, hStatus, hRan>>
snipVars == <<snArgs, snOut>>
projVars == <<lpArgs, lpOut>>
ingestVars == <<igN, igBatch, igI, igTotal, igEmbedded, igUpserted, igPc, igRet>>
readVars == <<stdinLines, stdinSent, stdinClosed, rdTaken, rdReturned, rdAvail, rdEof>>
pathVars == <<pjPath, pjOut>>
vars == <<chunkVars, tokVars, provVars, concVars, searchVars, bm25Vars, walkVars, bucketVars, srvVars, httpVars, snipVars, projVars, ingestVars, readVars, pathVars>>
notChunk == <<tokVars, provVars, concVars, searchVars, bm25Vars, walkVars, bucketVars, srvVars, httpVars, snipVars, projVars, ingestVars, readVars, pathVars>>
notTok == <<chunkVars, provVars, concVars, searchVars, bm25Vars, walkVars, bucketVars, srvVars, httpVars, snipVars, projVars, ingestVars, readVars, pathVars>>
notProv == <<chunkVars, tokVars, concVars, searchVars, bm25Vars, walkVars, bucketVars, srvVars, httpVars, snipVars, projVars, ingestVars, readVars, pathVars>>
notConc == <<chunkVars, tokVars, provVars, searchVars, bm25Vars, walkVars, bucketVars, srvVars, httpVars, snipVars, projVars, ingestVars, readVars, pathVars>>
notSearch == <<chunkVars, tokVars, provVars, concVars, bm25Vars, walkVars, bucketVars, srvVars, httpVars, snipVars, projVars, ingestVars, readVars, pathVars>>
notBm25 == <<chunkVars, tokVars, provVars, concVars, searchVars, walkVars, bucketVars, srvVars, httpVars, snipVars, projVars, ingestVars, readVars, pathVars>>
notWalk == <<chunkVars, tokVars, provVars, concVars, searchVars, bm25Vars, bucketVars, srvVars, httpVars, snipVars, projVars, ingestVars, readVars, pathVars>>
notBucket == <<chunkVars, tokVars, provVars, concVars, searchVars, bm25Vars, walkVars, srvVars, httpVars, snipVars, projVars, ingestVars, readVars, pathVars>>
notSrv == <<chunkVars, tokVars, provVars, concVars, searchVars, bm25Vars, walkVars, bucketVars, httpVars, snipVars, projVars, ingestVars, readVars, pathVars>>
notHttp == <<chunkVars, tokVars, provVars, concVars, searchVars, bm25Vars, walkVars, bucketVars, srvVars, snipVars, projVars, ingestVars, readVars, pathVars>>
notSnip == <<chunkVars, tokVars, provVars, concVars, searchVars, bm25Vars, walkVars, bucketVars, srvVars, httpVars, projVars, ingestVars, readVars, pathVars>>
notProj == <<chunkVars, tokVars, provVars, concVars, searchVars, bm25Vars, walkVars, bucketVars, srvVars, httpVars, snipVars, ingestVars, readVars, pathVars>>
notIngest == <<chunkVars, tokVars, provVars, concVars, searchVars, bm25Vars, walkVars, bucketVars, srvVars, httpVars, snipVars, projVars, readVars, pathVars>>
notRead == <<chunkVars, tokVars, provVars, concVars, searchVars, bm25Vars, walkVars, bucketVars, srvVars, httpVars, snipVars, projVars, ingestVars, pathVars>>
notPath == <<chunkVars, tokVars, provVars, concVars, searchVars, bm25Vars, walkVars, bucketVars, srvVars, httpVars, snipVars, projVars, ingestVars, readVars>>

Min(a, b) == IF a < b THEN a ELSE b
Max(a, b) == IF a > b THEN a ELSE b

\* ======================================================= float32 arithmetic
\* A float32 value is <<m, e>>, standing for m * 2^e, with m = 0 (and e = 0)
\* or 2^23 <= |m| < 2^24 (24 significant bits).  Every operation returns the
\* exact result rounded to nearest, ties to even, as IEEE-754 single precision
\* does; exponent overflow and underflow are outside the values reached here.
SigBits == 24
FZero == <<0, 0>>
Abs(x) == IF x < 0 THEN 0 - x ELSE x
RECURSIVE BitLen(_)
BitLen(M) == IF M = 0 THEN 0 ELSE 1 + BitLen(M \div 2)

\* the magnitude M * 2^E (plus a non-zero part below M's last bit when
\* sticky) rounded to SigBits bits
RoundNearestEven(M, E, sticky) ==
    IF M = 0 THEN FZero
    ELSE LET L == BitLen(M) IN
      IF L <= SigBits
        THEN <<M * 2^(SigBits - L), E - (SigBits - L)>>
        ELSE LET sh == L - SigBits
                 q == M \div 2^sh
                 r == M % 2^sh
                 half == 2^(sh - 1)
                 up == r > half \/ (r = half /\ (sticky \/ q % 2 = 1))
                 q1 == IF up THEN q + 1 ELSE q
             IN IF q1 = 2^SigBits THEN <<2^(SigBits - 1), E + sh + 1>>
                                  ELSE <<q1, E + sh>>

WithSign(neg, x) == IF neg THEN <<0 - x[1], x[2]>> ELSE x

\* x + y in float32
FAdd(x, y) ==
    IF x[1] = 0 THEN y
    ELSE IF y[1] = 0 THEN x
    ELSE LET big == IF x[2] >= y[2] THEN x ELSE y
             small == IF x[2] >= y[2] THEN y ELSE x
             d == big[2] - small[2]
         IN IF d >= SigBits + 3 THEN big
            ELSE LET shl == Min(d, 6)
                     shr == d - shl
                     B == Abs(big[1]) * 2^shl
                     S == Abs(small[1]) \div 2^shr
                     lost == (Abs(small[1]) % 2^shr) # 0
                     E == big[2] - shl
                     bigNeg == big[1] < 0
                 IN IF bigNeg = (small[1] < 0)
                      THEN WithSign(bigNeg, RoundNearestEven(B + S, E, lost))
                    ELSE IF lost
                      THEN WithSign(bigNeg, RoundNearestEven(B - S - 1, E, TRUE))
                    ELSE IF B >= S
                      THEN WithSign(bigNeg, RoundNearestEven(B - S, E, FALSE))
                      ELSE WithSign(~bigNeg, RoundNearestEven(S - B, E, FALSE))

\* x * y in float32: the 48-bit product of the significands in 12-bit halves
FMul(x, y) ==
    IF x[1] = 0 \/ y[1] = 0 THEN FZero
    ELSE LET a == Abs(x[1])
             b == Abs(y[1])
             a1 == a \div 4096
             a0 == a % 4096
             b1 == b \div 4096
             b0 == b % 4096
             mid == a1 * b0 + a0 * b1
             low == (mid % 4096) * 4096 + a0 * b0
             high == a1 * b1 + (mid \div 4096) + (low \div 16777216)
             low24 == low % 16777216
             M == high * 64 + (low24 \div 262144)
             sticky == (low24 % 262144) # 0
         IN WithSign((x[1] < 0) # (y[1] < 0),
                     RoundNearestEven(M, x[2] + y[2] + 18, sticky))

\* k more quotient bits of r / d, r < d
RECURSIVE DivBits(_, _, _, _)
DivBits(r, d, q, k) ==
    IF k = 0 THEN <<q, r>>
    ELSE IF 2 * r >= d THEN DivBits(2 * r - d, d, 2 * q + 1, k - 1)
                       ELSE DivBits(2 * r, d, 2 * q, k - 1)

\* x / y in float32, y # 0
FDiv(x, y) ==
    IF x[1] = 0 THEN FZero
    ELSE LET a == Abs(x[1])
             b == Abs(y[1])
             qr == DivBits(a % b, b, a \div b, SigBits + 2)
         IN WithSign((x[1] < 0) # (y[1] < 0),
                     RoundNearestEven(qr[1], x[2] - y[2] - (SigBits + 2), qr[2] # 0))

\* the square root digit by digit: pairs of bits of M from pair k down to
\* pair 0, then zeros more pairs of zero bits
RECURSIVE SqrtPairs(_, _, _, _, _)
SqrtPairs(M, k, zeros, root, rem) ==
    IF k < 0 /\ zeros = 0 THEN <<root, rem>>
    ELSE LET pair == IF k >= 0 THEN (M \div 4^k) % 4 ELSE 0
             rem2 == rem * 4 + pair
             trial == root * 4 + 1
             k2 == IF k >= 0 THEN k - 1 ELSE k
             z2 == IF k >= 0 THEN zeros ELSE zeros - 1
         IN IF rem2 >= trial
              THEN SqrtPairs(M, k2, z2, 2 * root + 1, rem2 - trial)
              ELSE SqrtPairs(M, k2, z2, 2 * root, rem2)

\* float32(math.Sqrt(float64(x))), x >= 0
FSqrt(x) ==
    IF x[1] = 0 THEN FZero
    ELSE LET odd == x[2] % 2 # 0
             M == IF odd THEN 2 * x[1] ELSE x[1]
             E == IF odd THEN x[2] - 1 ELSE x[2]
             rr == SqrtPairs(M, 12, 14, 0, 0)
         IN RoundNearestEven(rr[1], (E \div 2) - 14, rr[2] # 0)

\* ============================================================== tokenizers
\* A text is a sequence of runes; a rune is a one-character string, and the
\* non-ASCII letter U+00E9 is written "U+00E9" (two bytes in UTF-8).
AsciiUpper == <<"A", "B", "C", "D", "E", "F", "G", "H", "I", "J", "K", "L", "M", "N", "O", "P", "Q", "R", "S", "T", "U", "V", "W", "X", "Y", "Z">>
AsciiLower == <<"a", "b", "c", "d", "e", "f", "g", "h", "i", "j", "k", "l", "m", "n", "o", "p", "q", "r", "s", "t", "u", "v", "w", "x", "y", "z">>
Digits == {"0", "1", "2", "3", "4", "5", "6", "7", "8", "9"}
NonAsciiLetters == {"U+00E9"}
Range(f) == {f[i] : i \in DOMAIN f}

\* strings.ToLower, rune by rune
LowerOf ==
    "A" :> "a" @@ "B" :> "b" @@ "C" :> "c" @@ "D" :> "d" @@ "E" :> "e" @@ "F" :> "f"
    @@ "G" :> "g" @@ "H" :> "h" @@ "I" :> "i" @@ "J" :> "j" @@ "K" :> "k" @@ "L" :> "l"
    @@ "M" :> "m" @@ "N" :> "n" @@ "O" :> "o" @@ "P" :> "p" @@ "Q" :> "q" @@ "R" :> "r"
    @@ "S" :> "s" @@ "T" :> "t" @@ "U" :> "u" @@ "V" :> "v" @@ "W" :> "w" @@ "X" :> "x"
    @@ "Y" :> "y" @@ "Z" :> "z"
ToLowerRune(c) == IF c \in DOMAIN LowerOf THEN LowerOf[c] ELSE c
RECURSIVE ToLower(_)
ToLower(s) == IF s = <<>> THEN <<>> ELSE <<ToLowerRune(Head(s))>> \o ToLower(Tail(s))

\* regexp classes: \w is ASCII only, \s is [\t\n\f\r ], \p{L} is any letter
WordChars == Range(AsciiUpper) \cup Range(AsciiLower) \cup Digits \cup {"_"}
SpaceChars == {" ", "\t", "\n", "\f", "\r"}
Letters == Range(AsciiUpper) \cup Range(AsciiLower) \cup NonAsciiLetters
IsWordChar(c) == c \in WordChars
IsSpaceChar(c) == c \in SpaceChars
IsLetter(c) == c \in Letters

\* len(term): bytes of the UTF-8 encoding
RuneBytes(c) == IF c \in NonAsciiLetters THEN 2 ELSE 1
RECURSIVE ByteLen(_)
ByteLen(t) == IF t = <<>> THEN 0 ELSE RuneBytes(Head(t)) + ByteLen(Tail(t))

\* tokenizeText's stopWords map (lines 1281-1288)
stopWords ==
    { <<"t", "h", "e">>,
      <<"a">>,
      <<"a", "n">>,
      <<"a", "n", "d">>,
      <<"o", "r">>,
      <<"b", "u", "t">>,
      <<"i", "n">>,
      <<"o", "n">>,
      <<"a", "t">>,
      <<"t", "o">>,
      <<"f", "o", "r">>,
      <<"o", "f">>,
      <<"w", "i", "t", "h">>,
      <<"b", "y">>,
      <<"i", "s">>,
      <<"a", "r", "e">>,
      <<"w", "a", "s">>,
      <<"w", "e", "r", "e">>,
      <<"b", "e">>,
      <<"b", "e", "e", "n">>,
      <<"h", "a", "v", "e">>,
      <<"h", "a", "s">>,
      <<"h", "a", "d">>,
      <<"d", "o">>,
      <<"d", "o", "e", "s">>,
      <<"d", "i", "d">>,
      <<"w", "i", "l", "l">>,
      <<"w", "o", "u", "l", "d">>,
      <<"c", "o", "u", "l", "d">>,
      <<"s", "h", "o", "u", "l", "d">> }

\* regexp.MustCompile(`\s+`).Split(text, -1): the pieces between the maximal
\* whitespace runs, empty pieces at the ends included; [""] for the empty text
RECURSIVE SplitFrom(_, _, _, _)
SplitFrom(s, i, cur, acc) ==
    IF i > Len(s) THEN Append(acc, cur)
    ELSE IF IsSpaceChar(s[i])
      THEN IF i < Len(s) /\ IsSpaceChar(s[i + 1])
             THEN SplitFrom(s, i + 1, cur, acc)
             ELSE IF i = Len(s)
                    THEN Append(Append(acc, cur), <<>>)
                    ELSE SplitFrom(s, i + 1, <<>>, Append(acc, cur))
      ELSE SplitFrom(s, i + 1, Append(cur, s[i]), acc)
SplitSpace(s) == SplitFrom(s, 1, <<>>, <<>>)

\* ragvec.tokenizeText step `[^\w\s]` -> " " (line 1277)
ReplaceRune(c) == IF IsWordChar(c) \/ IsSpaceChar(c) THEN c ELSE " "
RECURSIVE ReplaceNonWord(_)
ReplaceNonWord(s) ==
    IF s = <<>> THEN <<>> ELSE <<ReplaceRune(Head(s))>> \o ReplaceNonWord(Tail(s))

\* the filter of lines 1290-1295 (TrimSpace changes nothing: pieces hold no space)
KeepTerm(term) == ByteLen(term) > 2 /\ term \notin stopWords
KeepTermStopWordsToo(term) == ByteLen(term) > 2

tokenizeTextKeepingStopWords(text) ==
    SelectSeq(SplitSpace(ReplaceNonWord(ToLower(text))), KeepTermStopWordsToo)
\* ragvec.tokenizeText (lines 1273-1297)
tokenizeText(text) ==
    SelectSeq(SplitSpace(ReplaceNonWord(ToLower(text))), KeepTerm)

\* wordRE.FindAllString: the maximal non-empty runs of [A-Za-z0-9_\p{L}]
RECURSIVE RunsFrom(_, _, _, _)
RunsFrom(s, i, cur, acc) ==
    IF i > Len(s) THEN (IF cur = <<>> THEN acc ELSE Append(acc, cur))
    ELSE IF IsWordChar(s[i]) \/ IsLetter(s[i])
      THEN RunsFrom(s, i + 1, Append(cur, s[i]), acc)
      ELSE RunsFrom(s, i + 1, <<>>, IF cur = <<>> THEN acc ELSE Append(acc, cur))

\* ragclassic.tokenize (lines 37-40)
tokenize(s) == RunsFrom(ToLower(s), 1, <<>>, <<>>)

\* the runes the tokenizer inputs are made of: letters that spell kept terms,
\* short terms and the stop words "a", "an", "and"; an upper-case letter; a
\* space; a punctuation mark; a non-ASCII letter
Alphabet == {"a", "n", "d", "A", " ", ".", "U+00E9"}

RECURSIVE SeqsUpTo(_, _)
SeqsUpTo(S, k) ==
    IF k = 0 THEN {<<>>}
    ELSE LET shorter == SeqsUpTo(S, k - 1) IN
         shorter \cup {Append(t, c) : t \in {u \in shorter : Len(u) = k - 1}, c \in S}

TokInit ==
    /\ tokText \in SeqsUpTo(Alphabet, MaxChars)
    /\ idxTokens = <<>>
    /\ embTokens = <<>>
    /\ tpc = "input"

TokIdle == tokText = <<>> /\ idxTokens = <<>> /\ embTokens = <<>> /\ tpc = "idle"

\* loadDocsWithConfig line 50 and Search line 151 call tokenize; BuildVocab
\* line 1176 and textToVector line 1219 call tokenizeText
Tokenize ==
    /\ tpc = "input"
    /\ idxTokens' = tokenize(tokText)
    /\ embTokens' = tokenizeText(tokText)
    /\ tpc' = "done"
    /\ UNCHANGED tokText
    /\ UNCHANGED notTok

\* =================================================== LocalEmbeddingProvider
\* crypto/md5: Md5Head[idx + 1][h + 1] is the first three bytes of
\* md5.Sum([]byte(fmt.Sprintf("%d_%d", idx, h))), idx in 0..7, h in 0..2
Md5Head ==
    <<
      <<<<94, 32, 102>>, <<23, 72, 130>>, <<141, 229, 90>>>>,
      <<<<114, 230, 246>>, <<236, 48, 132>>, <<171, 53, 232>>>>,
      <<<<187, 39, 166>>, <<249, 195, 64>>, <<82, 41, 128>>>>,
      <<<<190, 197, 80>>, <<248, 96, 186>>, <<223, 227, 163>>>>,
      <<<<175, 100, 28>>, <<80, 245, 108>>, <<156, 179, 146>>>>,
      <<<<230, 210, 251>>, <<218, 37, 68>>, <<4, 138, 157>>>>,
      <<<<21, 116, 173>>, <<172, 221, 22>>, <<40, 239, 216>>>>,
      <<<<19, 27, 211>>, <<131, 238, 107>>, <<56, 136, 114>>>>
    >>

\* float32(val / 3.0) of line 1253, for val = tf * idf in float64 with
\* tf = count / total (line 1230) and idf = math.Log(num / den) (line 1202):
\* WeightTable[<<count, total, num, den>>], computed in IEEE-754 double
\* precision and rounded to float32
WeightTable ==
    <<1, 1, 1, 1>> :> <<0, 0>>
    @@ <<1, 2, 1, 1>> :> <<0, 0>>
    @@ <<2, 2, 1, 1>> :> <<0, 0>>
    @@ <<1, 3, 1, 1>> :> <<0, 0>>
    @@ <<2, 3, 1, 1>> :> <<0, 0>>
    @@ <<3, 3, 1, 1>> :> <<0, 0>>
    @@ <<1, 4, 1, 1>> :> <<0, 0>>
    @@ <<2, 4, 1, 1>> :> <<0, 0>>
    @@ <<3, 4, 1, 1>> :> <<0, 0>>
    @@ <<4, 4, 1, 1>> :> <<0, 0>>
    @@ <<1, 1, 1, 2>> :> <<-15505440, -26>>
    @@ <<1, 2, 1, 2>> :> <<-15505440, -27>>
    @@ <<2, 2, 1, 2>> :> <<-15505440, -26>>
    @@ <<1, 3, 1, 2>> :> <<-10336960, -27>>
    @@ <<2, 3, 1, 2>> :> <<-10336960, -26>>
    @@ <<3, 3, 1, 2>> :> <<-15505440, -26>>
    @@ <<1, 4, 1, 2>> :> <<-15505440, -28>>
    @@ <<2, 4, 1, 2>> :> <<-15505440, -27>>
    @@ <<3, 4, 1, 2>> :> <<-11629080, -26>>
    @@ <<4, 4, 1, 2>> :> <<-15505440, -26>>
    @@ <<1, 1, 2, 1>> :> <<15505440, -26>>
    @@ <<1, 2, 2, 1>> :> <<15505440, -27>>
    @@ <<2, 2, 2, 1>> :> <<15505440, -26>>
    @@ <<1, 3, 2, 1>> :> <<10336960, -27>>
    @@ <<2, 3, 2, 1>> :> <<10336960, -26>>
    @@ <<3, 3, 2, 1>> :> <<15505440, -26>>
    @@ <<1, 4, 2, 1>> :> <<15505440, -28>>
    @@ <<2, 4, 2, 1>> :> <<15505440, -27>>
    @@ <<3, 4, 2, 1>> :> <<11629080, -26>>
    @@ <<4, 4, 2, 1>> :> <<15505440, -26>>
    @@ <<1, 1, 2, 3>> :> <<-9070101, -26>>
    @@ <<1, 2, 2, 3>> :> <<-9070101, -27>>
    @@ <<2, 2, 2, 3>> :> <<-9070101, -26>>
    @@ <<1, 3, 2, 3>> :> <<-12093468, -28>>
    @@ <<2, 3, 2, 3>> :> <<-12093468, -27>>
    @@ <<3, 3, 2, 3>> :> <<-9070101, -26>>
    @@ <<1, 4, 2, 3>> :> <<-9070101, -28>>
    @@ <<2, 4, 2, 3>> :> <<-9070101, -27>>
    @@ <<3, 4, 2, 3>> :> <<-13605151, -27>>
    @@ <<4, 4, 2, 3>> :> <<-9070101, -26>>
    @@ <<1, 1, 3, 2>> :> <<9070101, -26>>
    @@ <<1, 2, 3, 2>> :> <<9070101, -27>>
    @@ <<2, 2, 3, 2>> :> <<9070101, -26>>
    @@ <<1, 3, 3, 2>> :> <<12093468, -28>>
    @@ <<2, 3, 3, 2>> :> <<12093468, -27>>
    @@ <<3, 3, 3, 2>> :> <<9070101, -26>>
    @@ <<1, 4, 3, 2>> :> <<9070101, -28>>
    @@ <<2, 4, 3, 2>> :> <<9070101, -27>>
    @@ <<3, 4, 3, 2>> :> <<13605151, -27>>
    @@ <<4, 4, 3, 2>> :> <<9070101, -26>>
    @@ <<1, 1, 3, 4>> :> <<-12870678, -27>>
    @@ <<1, 2, 3, 4>> :> <<-12870678, -28>>
    @@ <<2, 2, 3, 4>> :> <<-12870678, -27>>
    @@ <<1, 3, 3, 4>> :> <<-8580452, -28>>
    @@ <<2, 3, 3, 4>> :> <<-8580452, -27>>
    @@ <<3, 3, 3, 4>> :> <<-12870678, -27>>
    @@ <<1, 4, 3, 4>> :> <<-12870678, -29>>
    @@ <<2, 4, 3, 4>> :> <<-12870678, -28>>
    @@ <<3, 4, 3, 4>> :> <<-9653009, -27>>
    @@ <<4, 4, 3, 4>> :> <<-12870678, -27>>
    @@ <<1, 1, 4, 3>> :> <<12870678, -27>>
    @@ <<1, 2, 4, 3>> :> <<12870678, -28>>
    @@ <<2, 2, 4, 3>> :> <<12870678, -27>>
    @@ <<1, 3, 4, 3>> :> <<8580452, -28>>
    @@ <<2, 3, 4, 3>> :> <<8580452, -27>>
    @@ <<3, 3, 4, 3>> :> <<12870678, -27>>
    @@ <<1, 4, 4, 3>> :> <<12870678, -29>>
    @@ <<2, 4, 4, 3>> :> <<12870678, -28>>
    @@ <<3, 4, 4, 3>> :> <<9653009, -27>>
    @@ <<4, 4, 4, 3>> :> <<12870678, -27>>
    @@ <<1, 1, 4, 5>> :> <<-9983273, -27>>
    @@ <<1, 2, 4, 5>> :> <<-9983273, -28>>
    @@ <<2, 2, 4, 5>> :> <<-9983273, -27>>
    @@ <<1, 3, 4, 5>> :> <<-13311031, -29>>
    @@ <<2, 3, 4, 5>> :> <<-13311031, -28>>
    @@ <<3, 3, 4, 5>> :> <<-9983273, -27>>
    @@ <<1, 4, 4, 5>> :> <<-9983273, -29>>
    @@ <<2, 4, 4, 5>> :> <<-9983273, -28>>
    @@ <<3, 4, 4, 5>> :> <<-14974910, -28>>
    @@ <<4, 4, 4, 5>> :> <<-9983273, -27>>
    @@ <<1, 1, 5, 2>> :> <<10248538, -25>>
    @@ <<1, 2, 5, 2>> :> <<10248538, -26>>
    @@ <<2, 2, 5, 2>> :> <<10248538, -25>>
    @@ <<1, 3, 5, 2>> :> <<13664718, -27>>
    @@ <<2, 3, 5, 2>> :> <<13664718, -26>>
    @@ <<3, 3, 5, 2>> :> <<10248538, -25>>
    @@ <<1, 4, 5, 2>> :> <<10248538, -27>>
    @@ <<2, 4, 5, 2>> :> <<10248538, -26>>
    @@ <<3, 4, 5, 2>> :> <<15372808, -26>>
    @@ <<4, 4, 5, 2>> :> <<10248538, -25>>
    @@ <<1, 1, 5, 3>> :> <<11426976, -26>>
    @@ <<1, 2, 5, 3>> :> <<11426976, -27>>
    @@ <<2, 2, 5, 3>> :> <<11426976, -26>>
    @@ <<1, 3, 5, 3>> :> <<15235968, -28>>
    @@ <<2, 3, 5, 3>> :> <<15235968, -27>>
    @@ <<3, 3, 5, 3>> :> <<11426976, -26>>
    @@ <<1, 4, 5, 3>> :> <<11426976, -28>>
    @@ <<2, 4, 5, 3>> :> <<11426976, -27>>
    @@ <<3, 4, 5, 3>> :> <<8570232, -26>>
    @@ <<4, 4, 5, 3>> :> <<11426976, -26>>
    @@ <<1, 1, 5, 4>> :> <<9983273, -27>>
    @@ <<1, 2, 5, 4>> :> <<9983273, -28>>
    @@ <<2, 2, 5, 4>> :> <<9983273, -27>>
    @@ <<1, 3, 5, 4>> :> <<13311031, -29>>
    @@ <<2, 3, 5, 4>> :> <<13311031, -28>>
    @@ <<3, 3, 5, 4>> :> <<9983273, -27>>
    @@ <<1, 4, 5, 4>> :> <<9983273, -29>>
    @@ <<2, 4, 5, 4>> :> <<9983273, -28>>
    @@ <<3, 4, 5, 4>> :> <<14974910, -28>>
    @@ <<4, 4, 5, 4>> :> <<9983273, -27>>
    @@ <<1, 1, 5, 6>> :> <<-16313857, -28>>
    @@ <<1, 2, 5, 6>> :> <<-16313857, -29>>
    @@ <<2, 2, 5, 6>> :> <<-16313857, -28>>
    @@ <<1, 3, 5, 6>> :> <<-10875904, -29>>
    @@ <<2, 3, 5, 6>> :> <<-10875904, -28>>
    @@ <<3, 3, 5, 6>> :> <<-16313857, -28>>
    @@ <<1, 4, 5, 6>> :> <<-16313857, -30>>
    @@ <<2, 4, 5, 6>> :> <<-16313857, -29>>
    @@ <<3, 4, 5, 6>> :> <<-12235393, -28>>
    @@ <<4, 4, 5, 6>> :> <<-16313857, -28>>

\* the words the provider's texts are made of, and the texts, corpora and
\* batches given to BuildVocab and Embed
ProvWords == {<<"d", "a", "d">>, <<"a", "d", "d">>}
RECURSIVE JoinWords(_)
JoinWords(ws) ==
    IF ws = <<>> THEN <<>>
    ELSE IF Len(ws) = 1 THEN ws[1]
    ELSE ws[1] \o <<" ">> \o JoinWords(Tail(ws))
ProvTexts == {JoinWords(ws) : ws \in SeqsUpTo(ProvWords, MaxWords)}
Corpora == SeqsUpTo(ProvTexts, MaxDocs)
MaxBatch == MaxDocs - 1
Batches == SeqsUpTo(ProvTexts, MaxBatch)

\* sort.Strings: byte order of the terms, which hold [0-9_a-z] only
CodeOrder == <<"0", "1", "2", "3", "4", "5", "6", "7", "8", "9", "_">> \o AsciiLower
CharCode(c) == CHOOSE i \in 1..Len(CodeOrder) : CodeOrder[i] = c
RECURSIVE LexLess(_, _)
LexLess(s, t) ==
    IF t = <<>> THEN FALSE
    ELSE IF s = <<>> THEN TRUE
    ELSE IF Head(s) = Head(t) THEN LexLess(Tail(s), Tail(t))
    ELSE CharCode(Head(s)) < CharCode(Head(t))

\* BuildVocab lines 1172-1185: the terms of each text, vocabSet and docFreq
\* (tokenizeText of each text the provider is given, evaluated once)
TokenTable == [t \in ProvTexts |-> tokenizeText(t)]
RECURSIVE TermSets(_)
TermSets(texts) ==
    IF texts = <<>> THEN <<>>
    ELSE <<Range(TokenTable[Head(texts)])>> \o TermSets(Tail(texts))
TermsOf(t) == Range(TokenTable[t])
VocabSet(texts) == UNION Range(TermSets(texts))
DocFreq(sets, term) == Cardinality({i \in 1..Len(sets) : term \in sets[i]})

\* lines 1188-1197: the index of a term is its place in the sorted vocabList
PlaceInUnsortedList(terms, term) == Cardinality({u \in terms : LexLess(term, u)})
SortedIndex(terms, term) == Cardinality({u \in terms : LexLess(u, term)})

\* line 1202: the argument totalDocs / (df + 1) of math.Log, in lowest terms
\* (the float64 quotient depends on the value of the fraction only)
RECURSIVE GCD(_, _)
GCD(a, b) == IF b = 0 THEN a ELSE GCD(b, a % b)
IdfArg(totalDocs, df) ==
    LET g == GCD(totalDocs, df + 1) IN
    IF totalDocs = 0 THEN <<0, 1>> ELSE <<totalDocs \div g, (df + 1) \div g>>

\* BuildVocab (lines 1170-1204) on provider fields p: the maps are written
\* into, never cleared
BuildVocabResult(p, texts) ==
    LET sets == TermSets(texts)
        vs == UNION Range(sets)
    IN [vocab |-> [t \in (DOMAIN p.vocab) \cup vs |->
                      IF t \in vs THEN SortedIndex(vs, t) ELSE p.vocab[t]],
        idf |-> [t \in (DOMAIN p.idf) \cup vs |->
                      IF t \in vs THEN IdfArg(Len(texts), DocFreq(sets, t)) ELSE p.idf[t]],
        vocabSize |-> Cardinality(vs)]

\* as LazyBuild, without the test of line 1207
BuildOnEveryCall(p, texts) == BuildVocabResult(p, texts)

\* Embed lines 1207-1210: build from this call's texts when vocab is empty
LazyBuild(p, texts) ==
    IF Cardinality(DOMAIN p.vocab) = 0 THEN BuildVocabResult(p, texts) ELSE p

\* textToVector lines 1219-1240
Count(terms, t) == Cardinality({i \in 1..Len(terms) : terms[i] = t})
KnownTerms(p, text) == TermsOf(text) \cap DOMAIN p.vocab
SparseIndexes(p, text) == {p.vocab[t] : t \in KnownTerms(p, text)}
\* tfidf[idx] is written once per term with that index, in the iteration
\* order of the map tf: the value that stays is that of any one of them
Winners(p, text) ==
    {w \in [SparseIndexes(p, text) -> KnownTerms(p, text)] :
        \A i \in DOMAIN w : p.vocab[w[i]] = i}
SparseKey(p, text, t) ==
    <<Count(TokenTable[text], t), Len(TokenTable[text]), p.idf[t][1], p.idf[t][2]>>
Weight(key) == WeightTable[key]

\* lines 1249-1252
\* the sum of line 1251 without the reduction of line 1252
BucketWithoutFinalMod(idx, h, D) ==
    LET b == Md5Head[idx + 1][h + 1] IN
    (b[1] % D) + (b[2] % D) + (b[3] % D)
Bucket(idx, h, D) ==
    LET b == Md5Head[idx + 1][h + 1] IN
    ((b[1] % D) + (b[2] % D) + (b[3] % D)) % D

\* line 1243
NewVectorOneLonger(p, D) == [i \in 1..(D + 1) |-> FZero]
NewVector(p, D) == [i \in 1..D |-> FZero]

\* lines 1246-1255: for idx in the given iteration order of the map tfidf,
\* for h = 0, 1, 2: vector[pos] += float32(val / 3.0)
Contribs(p, text, winner, order, D) ==
    [k \in 1..(3 * Len(order)) |->
        LET idx == order[((k - 1) \div 3) + 1]
            h == (k - 1) % 3
        IN <<Bucket(idx, h, D) + 1, Weight(SparseKey(p, text, winner[idx]))>>]
RECURSIVE FoldInto(_, _)
FoldInto(vector, contribs) ==
    IF contribs = <<>> THEN vector
    ELSE FoldInto([vector EXCEPT ![Head(contribs)[1]] = FAdd(@, Head(contribs)[2])],
                  Tail(contribs))

\* lines 1257-1269
RECURSIVE SumSquares(_, _, _)
SumSquares(vector, i, acc) ==
    IF i > Len(vector) THEN acc
    ELSE SumSquares(vector, i + 1, FAdd(acc, FMul(vector[i], vector[i])))
Normalize(vector) ==
    LET norm == FSqrt(SumSquares(vector, 1, FZero)) IN
    IF norm[1] > 0 THEN [i \in 1..Len(vector) |-> FDiv(vector[i], norm)]
                   ELSE vector

Perms(S) == {s \in [1..Cardinality(S) -> S] : \A i, j \in DOMAIN s : s[i] = s[j] => i = j}

\* textToVector (lines 1218-1270) under one iteration order of each map;
\* make panics for a negative dim and % p.dim for dim 0
textToVector(p, D, text, winner, order) ==
    IF D < 0 \/ (D = 0 /\ order # <<>>)
      THEN [panic |-> TRUE, vector |-> <<>>]
      ELSE [panic |-> FALSE,
            vector |-> Normalize(FoldInto(NewVector(p, D), Contribs(p, text, winner, order, D)))]

\* what textToVector can return for a text, over the iteration orders
Outcomes(p, D, text) ==
    {textToVector(p, D, text, w, o) :
        w \in Winners(p, text), o \in Perms(SparseIndexes(p, text))}
RECURSIVE OutcomeSeqs(_, _, _)
OutcomeSeqs(p, D, texts) ==
    IF texts = <<>> THEN {<<>>}
    ELSE {<<o>> \o rest : o \in Outcomes(p, D, Head(texts)),
                          rest \in OutcomeSeqs(p, D, Tail(texts))}

Provider == [vocab |-> vocab, idf |-> idf, vocabSize |-> vocabSize]
NoCall == [op |-> "none", texts |-> <<>>, terms |-> {}, wasEmpty |-> FALSE,
           err |-> "nil", panic |-> FALSE, embeddings |-> <<>>]

\* config.DefaultConfig (config.go lines 72-112) with embedding.local.dim as
\* the configuration file gives it (LoadFromFile unmarshals over the defaults)
ConfigWithDim(D) ==
    [Name |-> "mcp-rag-service", Provider |-> "local", APIKey |-> "",
     ChunkSize |-> 800, ChunkOverlap |-> 100, BatchSize |-> 10, Dim |-> D]

\* Config.Validate (config.go lines 188-214): the error it returns, "nil" for none
Validate(c) ==
    IF c.Name = "" THEN "server name cannot be empty"
    ELSE IF c.Provider # "openai" /\ c.Provider # "local"
      THEN "embedding provider must be 'openai' or 'local'"
    ELSE IF c.Provider = "openai" /\ c.APIKey = ""
      THEN "OpenAI API key is required when using OpenAI provider"
    ELSE IF c.ChunkSize <= 0 THEN "chunk size must be positive"
    ELSE IF c.ChunkOverlap < 0 THEN "chunk overlap cannot be negative"
    ELSE IF c.BatchSize <= 0 THEN "batch size must be positive"
    ELSE "nil"

\* NewLocalEmbeddingProviderWithConfig (lines 1151-1157)
ProvInit ==
    /\ vocab = <<>>
    /\ idf = <<>>
    /\ vocabSize = 0
    /\ dim \in (-1)..MaxDim
    /\ calls = 0
    /\ lastCall = NoCall

ProvIdle ==
    /\ vocab = <<>> /\ idf = <<>> /\ vocabSize = 0 /\ dim = 0 /\ calls = 0
    /\ lastCall = NoCall

\* p.BuildVocab(texts)
BuildVocab ==
    /\ calls < MaxCalls
    /\ \E texts \in Corpora :
         LET p1 == BuildVocabResult(Provider, texts) IN
         /\ vocab' = p1.vocab
         /\ idf' = p1.idf
         /\ vocabSize' = p1.vocabSize
         /\ lastCall' = [op |-> "BuildVocab", texts |-> <<>>, terms |-> VocabSet(texts),
                         wasEmpty |-> Cardinality(DOMAIN vocab) = 0, err |-> "nil",
                         panic |-> FALSE, embeddings |-> <<>>]
    /\ calls' = calls + 1
    /\ UNCHANGED dim
    /\ UNCHANGED notProv

\* p.Embed(texts) (lines 1206-1216)
Embed ==
    /\ calls < MaxCalls
    /\ \E texts \in Batches :
         LET p1 == LazyBuild(Provider, texts) IN
         \E outs \in OutcomeSeqs(p1, dim, texts) :
            LET panics == \E i \in 1..Len(outs) : outs[i].panic IN
            /\ vocab' = p1.vocab
            /\ idf' = p1.idf
            /\ vocabSize' = p1.vocabSize
            /\ lastCall' = [op |-> "Embed", texts |-> texts, terms |-> VocabSet(texts),
                            wasEmpty |-> Cardinality(DOMAIN vocab) = 0, err |-> "nil",
                            panic |-> panics,
                            embeddings |-> IF panics THEN <<>>
                                           ELSE [i \in 1..Len(outs) |-> outs[i].vector]]
    /\ calls' = calls + 1
    /\ UNCHANGED dim
    /\ UNCHANGED notProv

ProvNext == BuildVocab \/ Embed

\* ============================================ concurrent Embed calls
\* main's request loop (main.go line 101) and the handlers of the HTTP server
\* started at main.go line 97 (a goroutine per request, httpserver.Start)
\* call Embed on the one provider of the one VecRAG; the provider has no lock.
\* A term is the number of its place in byte order; a call's texts are the
\* set of their terms.
Threads == {"stdio", "http"}
ConcTerms == 1..MaxConcTerms
IdleThread == [pc |-> "idle", terms |-> {}, toVocab |-> {}, toIdf |-> {},
               toRead |-> {}, wrote |-> 0, half |-> FALSE]

ConcInit ==
    /\ shVocab = <<>>
    /\ shIdf = {}
    /\ shSize = 0
    /\ th = [t \in Threads |-> IdleThread]
    /\ started = 0
    /\ fatal = FALSE
    /\ racyRead = FALSE

ConcIdle ==
    /\ shVocab = <<>> /\ shIdf = {} /\ shSize = 0
    /\ th = <<>> /\ started = 0 /\ fatal = FALSE /\ racyRead = FALSE

\* another thread is inside BuildVocab's writes: some written, some to come
Partway(t) ==
    /\ th[t].pc \in {"writeVocab", "writeIdf"}
    /\ th[t].wrote > 0
    /\ th[t].toVocab \cup th[t].toIdf # {}
OtherPartway(t) == \E u \in Threads \ {t} : Partway(u)
OtherWriting(t) == \E u \in Threads \ {t} : th[u].pc \in {"writeVocab", "writeIdf"}

\* a request arrives: IngestDocs line 653 or SearchWithFilter line 706 calls Embed
ConcStart(t) ==
    /\ ~fatal
    /\ th[t].pc = "idle"
    /\ started < MaxConcCalls
    /\ \E terms \in SUBSET ConcTerms :
         th' = [th EXCEPT ![t] = [IdleThread EXCEPT !.pc = "check", !.terms = terms]]
    /\ started' = started + 1
    /\ UNCHANGED <<shVocab, shIdf, shSize, fatal, racyRead>>
    /\ UNCHANGED notConc

\* Embed line 1207: len(p.vocab) == 0
ConcCheck(t) ==
    /\ ~fatal
    /\ th[t].pc = "check"
    /\ th' = [th EXCEPT ![t].pc = IF DOMAIN shVocab = {} THEN "writeSize" ELSE "read",
                        ![t].toRead = th[t].terms]
    /\ racyRead' = (racyRead \/ OtherPartway(t))
    /\ UNCHANGED <<shVocab, shIdf, shSize, started, fatal>>
    /\ UNCHANGED notConc

\* BuildVocab line 1194: p.vocabSize = len(vocabList)
ConcWriteSize(t) ==
    /\ ~fatal
    /\ th[t].pc = "writeSize"
    /\ shSize' = Cardinality(th[t].terms)
    /\ th' = [th EXCEPT ![t].pc = IF th[t].terms = {} THEN "read" ELSE "writeVocab",
                        ![t].toVocab = th[t].terms,
                        ![t].toIdf = th[t].terms]
    /\ UNCHANGED <<shVocab, shIdf, started, fatal, racyRead>>
    /\ UNCHANGED notConc

\* BuildVocab lines 1195-1197: p.vocab[term] = i, in sorted order
ConcWriteVocab(t) ==
    /\ ~fatal
    /\ th[t].pc = "writeVocab"
    /\ LET term == CHOOSE x \in th[t].toVocab : \A y \in th[t].toVocab : x <= y
           i == Cardinality({y \in th[t].terms : y < term})
           left == th[t].toVocab \ {term}
       IN /\ shVocab' = [x \in (DOMAIN shVocab) \cup {term} |->
                            IF x = term THEN i ELSE shVocab[x]]
          /\ th' = [th EXCEPT ![t].toVocab = left,
                              ![t].wrote = th[t].wrote + 1,
                              ![t].pc = IF left = {} THEN "writeIdf" ELSE "writeVocab"]
    /\ UNCHANGED <<shIdf, shSize, started, fatal, racyRead>>
    /\ UNCHANGED notConc

\* BuildVocab lines 1201-1203: p.idf[term] = ..., in the order of the map docFreq
ConcWriteIdf(t) ==
    /\ ~fatal
    /\ th[t].pc = "writeIdf"
    /\ \E term \in th[t].toIdf :
         LET left == th[t].toIdf \ {term} IN
         /\ shIdf' = shIdf \cup {term}
         /\ th' = [th EXCEPT ![t].toIdf = left,
                             ![t].wrote = th[t].wrote + 1,
                             ![t].pc = IF left = {} THEN "read" ELSE "writeIdf"]
    /\ UNCHANGED <<shVocab, shSize, started, fatal, racyRead>>
    /\ UNCHANGED notConc

\* textToVector lines 1236-1237: p.vocab[term], then p.idf[term] (0 when absent)
ConcRead(t) ==
    /\ ~fatal
    /\ th[t].pc = "read"
    /\ th[t].toRead # {}
    /\ \E term \in th[t].toRead :
         th' = [th EXCEPT ![t].toRead = th[t].toRead \ {term},
                          ![t].half = th[t].half
                                        \/ (term \in DOMAIN shVocab /\ term \notin shIdf)]
    /\ racyRead' = (racyRead \/ OtherPartway(t))
    /\ UNCHANGED <<shVocab, shIdf, shSize, started, fatal>>
    /\ UNCHANGED notConc

\* Embed returns (line 1215)
ConcReturn(t) ==
    /\ ~fatal
    /\ th[t].pc = "read"
    /\ th[t].toRead = {}
    /\ th' = [th EXCEPT ![t].pc = "idle"]
    /\ UNCHANGED <<shVocab, shIdf, shSize, started, fatal, racyRead>>
    /\ UNCHANGED notConc

\* the Go runtime may detect a map access that overlaps another goroutine's
\* map write and end the process ("concurrent map read and map write",
\* "concurrent map writes")
ConcFatal(t) ==
    /\ ~fatal
    /\ th[t].pc \in {"check", "read", "writeVocab", "writeIdf"}
    /\ OtherWriting(t)
    /\ fatal' = TRUE
    /\ UNCHANGED <<shVocab, shIdf, shSize, th, started, racyRead>>
    /\ UNCHANGED notConc

ConcNext ==
    \E t \in Threads :
        \/ ConcStart(t)
        \/ ConcCheck(t)
        \/ ConcWriteSize(t)
        \/ ConcWriteVocab(t)
        \/ ConcWriteIdf(t)
        \/ ConcRead(t)
        \/ ConcReturn(t)
        \/ ConcFatal(t)

\* ==================================================== lexical search
\* ragclassic (src/unnamed/part_002).  float64 values are kept as fixed-point
\* numbers in units of 10^-15: <<l2, l1, l0>> stands for
\* (l2 * FxBase^2 + l1 * FxBase + l0) * 10^-15 with 0 <= l1, l0 < FxBase and
\* l2 of either sign.
FxBase == 10^5
FxZero == <<0, 0, 0>>
FxNorm(x) ==
    LET m == x[2] + (x[3] \div FxBase)
    IN <<x[1] + (m \div FxBase), m % FxBase, x[3] % FxBase>>
FxAdd(x, y) == FxNorm(<<x[1] + y[1], x[2] + y[2], x[3] + y[3]>>)
FxMul(x, p) == FxNorm(<<x[1] * p, x[2] * p, x[3] * p>>)
FxDiv(x, q) ==
    LET t == (x[1] % q) * FxBase + x[2]
        u == (t % q) * FxBase + x[3]
    IN <<x[1] \div q, t \div q, u \div q>>
FxLess(x, y) ==
    \/ x[1] < y[1]
    \/ x[1] = y[1] /\ x[2] < y[2]
    \/ x[1] = y[1] /\ x[2] = y[2] /\ x[3] < y[3]
FxLeq(x, y) == ~FxLess(y, x)

\* bm25Score line 103: math.Log((N - df + 0.5) / (df + 0.5 + 1e-9)), by <<N, df>>
IdfTable ==
    <<1, 1>> :> <<-109862, 77106, 65224>> @@ <<2, 1>> :> <<-1, 99993, 33333>> @@
    <<2, 2>> :> <<-160944, 20871, 65900>> @@ <<3, 1>> :> <<51082, 56230, 99324>> @@
    <<3, 2>> :> <<-51083, 43758, 34009>> @@ <<3, 3>> :> <<-194592, 98506, 58973>> @@
    <<4, 1>> :> <<84729, 78597, 20537>> @@ <<4, 2>> :> <<-1, 99996, 0>> @@
    <<4, 3>> :> <<-84730, 21393, 27082>> @@ <<4, 4>> :> <<-219723, 54224, 41558>> @@
    <<5, 1>> :> <<109861, 22880, 1443>> @@ <<5, 2>> :> <<33647, 22362, 21213>> @@
    <<5, 3>> :> <<-33648, 77630, 93073>> @@ <<5, 4>> :> <<-109862, 77111, 9668>> @@
    <<5, 5>> :> <<-239790, 47270, 19811>> @@ <<6, 1>> :> <<129928, 29834, 63594>> @@
    <<6, 2>> :> <<58778, 66645, 2119>> @@ <<6, 3>> :> <<-1, 99997, 14286>> @@
    <<6, 4>> :> <<-58779, 33348, 75659>> @@ <<6, 5>> :> <<-129929, 70156, 87921>> @@
    <<6, 6>> :> <<-256495, 6423, 84617>> @@ <<7, 1>> :> <<146633, 70681, 26760>> @@
    <<7, 2>> :> <<78845, 73599, 64270>> @@ <<7, 3>> :> <<25131, 44279, 95192>> @@
    <<7, 4>> :> <<-25132, 55714, 96872>> @@ <<7, 5>> :> <<-78846, 26394, 53912>> @@
    <<7, 6>> :> <<-146634, 29310, 52727>> @@ <<7, 7>> :> <<-270806, 97987, 64457>>

\* cosineTF line 141: dot / (math.Sqrt(qn) * math.Sqrt(dn)), by <<dot, qn, dn>>
CosTable ==
    <<1, 1, 1>> :> <<100000, 0, 0>> @@ <<1, 2, 1>> :> <<70710, 67811, 86548>> @@
    <<1, 3, 1>> :> <<57735, 2691, 89626>> @@ <<1, 5, 1>> :> <<44721, 35954, 99958>> @@
    <<2, 1, 4>> :> <<100000, 0, 0>> @@ <<2, 2, 2>> :> <<100000, 0, 0>> @@
    <<2, 2, 4>> :> <<70710, 67811, 86548>> @@ <<2, 3, 2>> :> <<81649, 65809, 27726>> @@
    <<2, 3, 4>> :> <<57735, 2691, 89626>> @@ <<2, 4, 1>> :> <<100000, 0, 0>> @@
    <<2, 5, 1>> :> <<89442, 71909, 99916>> @@ <<2, 5, 4>> :> <<44721, 35954, 99958>> @@
    <<3, 1, 9>> :> <<100000, 0, 0>> @@ <<3, 2, 5>> :> <<94868, 32980, 50514>> @@
    <<3, 2, 9>> :> <<70710, 67811, 86548>> @@ <<3, 3, 3>> :> <<100000, 0, 0>> @@
    <<3, 3, 5>> :> <<77459, 66692, 41483>> @@ <<3, 3, 9>> :> <<57735, 2691, 89626>> @@
    <<3, 5, 2>> :> <<94868, 32980, 50514>> @@ <<3, 5, 9>> :> <<44721, 35954, 99958>> @@
    <<3, 9, 1>> :> <<100000, 0, 0>> @@ <<4, 1, 16>> :> <<100000, 0, 0>> @@
    <<4, 2, 8>> :> <<100000, 0, 0>> @@ <<4, 2, 10>> :> <<89442, 71909, 99916>> @@
    <<4, 2, 16>> :> <<70710, 67811, 86548>> @@ <<4, 3, 6>> :> <<94280, 90415, 82064>> @@
    <<4, 3, 8>> :> <<81649, 65809, 27726>> @@ <<4, 3, 10>> :> <<73029, 67433, 40221>> @@
    <<4, 3, 16>> :> <<57735, 2691, 89626>> @@ <<4, 4, 4>> :> <<100000, 0, 0>> @@
    <<4, 5, 4>> :> <<89442, 71909, 99916>> @@ <<4, 5, 5>> :> <<80000, 0, 0>> @@
    <<4, 5, 16>> :> <<44721, 35954, 99958>> @@ <<5, 1, 25>> :> <<100000, 0, 0>> @@
    <<5, 2, 13>> :> <<98058, 6756, 90920>> @@ <<5, 2, 17>> :> <<85749, 29257, 12544>> @@
    <<5, 2, 25>> :> <<70710, 67811, 86548>> @@ <<5, 3, 9>> :> <<96225, 4486, 49376>> @@
    <<5, 3, 11>> :> <<87038, 82797, 78489>> @@ <<5, 3, 13>> :> <<80064, 7690, 25436>> @@
    <<5, 3, 17>> :> <<70014, 420, 14005>> @@ <<5, 3, 25>> :> <<57735, 2691, 89626>> @@
    <<5, 5, 5>> :> <<100000, 0, 0>> @@ <<5, 5, 10>> :> <<70710, 67811, 86548>> @@
    <<5, 5, 25>> :> <<44721, 35954, 99958>> @@ <<6, 1, 36>> :> <<100000, 0, 0>> @@
    <<6, 2, 18>> :> <<100000, 0, 0>> @@ <<6, 2, 20>> :> <<94868, 32980, 50514>> @@
    <<6, 2, 26>> :> <<83205, 2943, 37844>> @@ <<6, 2, 36>> :> <<70710, 67811, 86548>> @@
    <<6, 3, 12>> :> <<100000, 0, 0>> @@ <<6, 3, 14>> :> <<92582, 997, 72552>> @@
    <<6, 3, 18>> :> <<81649, 65809, 27726>> @@ <<6, 3, 20>> :> <<77459, 66692, 41483>> @@
    <<6, 3, 26>> :> <<67936, 62204, 86758>> @@ <<6, 3, 36>> :> <<57735, 2691, 89626>> @@
    <<6, 4, 9>> :> <<100000, 0, 0>> @@ <<6, 5, 8>> :> <<94868, 32980, 50514>> @@
    <<6, 5, 9>> :> <<89442, 71909, 99916>> @@ <<6, 5, 17>> :> <<65079, 13734, 55969>> @@
    <<6, 5, 36>> :> <<44721, 35954, 99958>> @@ <<6, 9, 4>> :> <<100000, 0, 0>> @@
    <<7, 2, 25>> :> <<98994, 94936, 61167>> @@ <<7, 2, 29>> :> <<91914, 50300, 18058>> @@
    <<7, 2, 37>> :> <<81373, 34712, 6735>> @@ <<7, 3, 17>> :> <<98019, 60588, 19607>> @@
    <<7, 3, 19>> :> <<92717, 26499, 45531>> @@ <<7, 3, 21>> :> <<88191, 71036, 88197>> @@
    <<7, 3, 25>> :> <<80829, 3768, 65476>> @@ <<7, 3, 27>> :> <<77777, 77777, 77778>> @@
    <<7, 3, 29>> :> <<75047, 87743, 86457>> @@ <<7, 3, 37>> :> <<66441, 5970, 26749>> @@
    <<7, 5, 10>> :> <<98994, 94936, 61166>> @@ <<7, 5, 13>> :> <<86824, 31421, 24459>> @@
    <<7, 5, 26>> :> <<61394, 6135, 14921>> @@ <<8, 2, 32>> :> <<100000, 0, 0>> @@
    <<8, 2, 34>> :> <<97014, 25001, 45332>> @@ <<8, 2, 40>> :> <<89442, 71909, 99916>> @@
    <<8, 3, 22>> :> <<98473, 19278, 34662>> @@ <<8, 3, 24>> :> <<94280, 90415, 82064>> @@
    <<8, 3, 26>> :> <<90582, 16273, 15677>> @@ <<8, 3, 30>> :> <<84327, 40427, 11568>> @@
    <<8, 3, 32>> :> <<81649, 65809, 27726>> @@ <<8, 3, 34>> :> <<79211, 80343, 81340>> @@
    <<8, 3, 38>> :> <<74926, 86492, 65355>> @@ <<8, 3, 40>> :> <<73029, 67433, 40221>> @@
    <<8, 4, 16>> :> <<100000, 0, 0>> @@ <<8, 5, 13>> :> <<99227, 78767, 13668>> @@
    <<8, 5, 16>> :> <<89442, 71909, 99916>> @@ <<8, 5, 20>> :> <<80000, 0, 0>> @@
    <<8, 5, 37>> :> <<58817, 16976, 75046>> @@ <<9, 2, 41>> :> <<99388, 37346, 73619>> @@
    <<9, 2, 45>> :> <<94868, 32980, 50514>> @@ <<9, 3, 27>> :> <<100000, 0, 0>> @@
    <<9, 3, 29>> :> <<96490, 12813, 54015>> @@ <<9, 3, 33>> :> <<90453, 40337, 33291>> @@
    <<9, 3, 35>> :> <<87831, 656, 53680>> @@ <<9, 3, 41>> :> <<81150, 26712, 689>> @@
    <<9, 3, 45>> :> <<77459, 66692, 41483>> @@ <<9, 5, 17>> :> <<97618, 70601, 83953>> @@
    <<9, 5, 18>> :> <<94868, 32980, 50514>> @@ <<9, 5, 29>> :> <<74740, 93186, 83660>> @@
    <<9, 9, 9>> :> <<100000, 0, 0>> @@ <<10, 2, 50>> :> <<100000, 0, 0>> @@
    <<10, 2, 52>> :> <<98058, 6756, 90920>> @@ <<10, 3, 34>> :> <<99014, 75429, 76674>> @@
    <<10, 3, 36>> :> <<96225, 4486, 49376>> @@ <<10, 3, 38>> :> <<93658, 58115, 81694>> @@
    <<10, 3, 42>> :> <<89087, 8063, 74748>> @@ <<10, 3, 44>> :> <<87038, 82797, 78489>> @@
    <<10, 3, 46>> :> <<85125, 65307, 58749>> @@ <<10, 3, 50>> :> <<81649, 65809, 27726>> @@
    <<10, 3, 52>> :> <<80064, 7690, 25436>> @@ <<10, 4, 25>> :> <<100000, 0, 0>> @@
    <<10, 5, 20>> :> <<100000, 0, 0>> @@ <<10, 5, 25>> :> <<89442, 71909, 99916>> @@
    <<10, 5, 40>> :> <<70710, 67811, 86548>> @@ <<11, 2, 61>> :> <<99589, 32064, 67704>> @@
    <<11, 3, 41>> :> <<99183, 65981, 34176>> @@ <<11, 3, 43>> :> <<96849, 59969, 58186>> @@
    <<11, 3, 45>> :> <<94672, 92624, 6258>> @@ <<11, 3, 49>> :> <<90726, 47087, 26555>> @@
    <<11, 3, 51>> :> <<88929, 72917, 99888>> @@ <<11, 3, 53>> :> <<87235, 67442, 89959>> @@
    <<11, 3, 61>> :> <<81314, 33980, 50030>> @@ <<11, 5, 25>> :> <<98386, 99100, 99907>> @@
    <<11, 5, 26>> :> <<96476, 38212, 37732>> @@ <<11, 5, 34>> :> <<84366, 14877, 32108>> @@
    <<12, 2, 72>> :> <<100000, 0, 0>> @@ <<12, 3, 48>> :> <<100000, 0, 0>> @@
    <<12, 3, 50>> :> <<97979, 58971, 13271>> @@ <<12, 3, 54>> :> <<94280, 90415, 82063>> @@
    <<12, 3, 56>> :> <<92582, 997, 72552>> @@ <<12, 3, 62>> :> <<87988, 26901, 28120>> @@
    <<12, 3, 72>> :> <<81649, 65809, 27726>> @@ <<12, 4, 36>> :> <<100000, 0, 0>> @@
    <<12, 5, 29>> :> <<99654, 57582, 44880>> @@ <<12, 5, 32>> :> <<94868, 32980, 50514>> @@
    <<12, 5, 36>> :> <<89442, 71909, 99916>> @@ <<12, 5, 45>> :> <<80000, 0, 0>> @@
    <<12, 9, 16>> :> <<100000, 0, 0>> @@ <<13, 3, 57>> :> <<99413, 48467, 72435>> @@
    <<13, 3, 59>> :> <<97713, 98364, 3678>> @@ <<13, 3, 61>> :> <<96098, 76522, 40945>> @@
    <<13, 3, 65>> :> <<93094, 93362, 51263>> @@ <<13, 3, 73>> :> <<87845, 85919, 19332>> @@
    <<13, 5, 34>> :> <<99705, 44855, 1582>> @@ <<13, 5, 37>> :> <<95577, 90087, 21950>> @@
    <<13, 5, 41>> :> <<90795, 93845, 452>> @@ <<14, 3, 66>> :> <<99493, 66763, 26182>> @@
    <<14, 3, 68>> :> <<98019, 60588, 19607>> @@ <<14, 3, 70>> :> <<96609, 17830, 79296>> @@
    <<14, 3, 76>> :> <<92717, 26499, 45531>> @@ <<14, 5, 40>> :> <<98994, 94936, 61166>> @@
    <<14, 5, 41>> :> <<97780, 24140, 77409>> @@ <<14, 5, 52>> :> <<86824, 31421, 24459>> @@
    <<15, 3, 75>> :> <<100000, 0, 0>> @@ <<15, 3, 77>> :> <<98692, 75424, 39653>> @@
    <<15, 3, 81>> :> <<96225, 4486, 49376>> @@ <<15, 5, 45>> :> <<100000, 0, 0>> @@
    <<15, 5, 50>> :> <<94868, 32980, 50514>> @@ <<15, 9, 25>> :> <<100000, 0, 0>> @@
    <<16, 3, 86>> :> <<99611, 64901, 83505>> @@ <<16, 3, 88>> :> <<98473, 19278, 34662>> @@
    <<16, 5, 52>> :> <<99227, 78767, 13668>> @@ <<16, 5, 61>> :> <<91615, 73349, 2189>> @@
    <<17, 3, 97>> :> <<99655, 76489, 92934>> @@ <<17, 5, 61>> :> <<97341, 71683, 33576>> @@
    <<18, 3, 108>> :> <<100000, 0, 0>> @@ <<18, 5, 72>> :> <<94868, 32980, 50514>> @@
    <<18, 9, 36>> :> <<100000, 0, 0>>

\* bm25Score lines 103-107, one query term: idf * (num / (den + 1e-9)) with
\* num = tf * (k1 + 1), den = tf + k1 * (1 - b + b * (docLen / AvgDocLen)),
\* k1 = 1.5, b = 0.75 and AvgDocLen = totalLen / N (line 85).  num and den are
\* both taken 8 * totalLen times; the 1e-9 added to den, less than 3 parts in
\* 10^9 of it, is left out.
bm25TermWithoutTf(N, df, tf, docLen, totalLen) ==
    FxDiv(FxMul(IdfTable[<<N, df>>], 20 * totalLen),
          8 * tf * totalLen + 3 * totalLen + 9 * docLen * N)
bm25Term(N, df, tf, docLen, totalLen) ==
    FxDiv(FxMul(IdfTable[<<N, df>>], 20 * tf * totalLen),
          8 * tf * totalLen + 3 * totalLen + 9 * docLen * N)

\* ---- the index
\* MakeChunks: every file gives chunks with the ids basename:0, basename:1, ...;
\* the files here are shorter than a chunk, so each gives the chunk basename:0.
\* filepath.Walk visits the paths in lexical order.
WalkOrder == <<[dir |-> "a", base |-> "x.md"], [dir |-> "a", base |-> "y.md"],
               [dir |-> "b", base |-> "x.md"], [dir |-> "b", base |-> "y.md"]>>
DocWords == {<<"a", "d">>, <<"d", "a">>}
QueryWords == {<<"a", "d">>, <<"D", "a">>, <<"n">>, <<".">>}
DocTexts == {JoinWords(ws) : ws \in SeqsUpTo(DocWords, MaxDocTerms)} \ {<<>>}
QueryTexts == {JoinWords(ws) : ws \in SeqsUpTo(QueryWords, MaxQueryTerms)}
SearchTokens == [t \in DocTexts \cup QueryTexts |-> tokenize(t)]
NoFile == <<"no file">>
Trees == [1..Min(MaxFiles, Len(WalkOrder)) -> DocTexts \cup {NoFile}]

ChunkID(path, i) == <<path.base, i>>
RECURSIVE DocsFrom(_, _)
\* loadDocsWithConfig lines 42-54
DocsFrom(tree, i) ==
    IF i > Len(tree) THEN <<>>
    ELSE IF tree[i] = NoFile THEN DocsFrom(tree, i + 1)
    ELSE <<[ID |-> ChunkID(WalkOrder[i], 0), Text |-> tree[i],
            Terms |-> SearchTokens[tree[i]]]>> \o DocsFrom(tree, i + 1)

\* AvgDocLen is kept as the fraction <<numerator, denominator>>, 0 as <<0, 1>>
EmptyIndex == [Docs |-> <<>>, DF |-> <<>>, TF |-> <<>>, DocLen |-> <<>>,
               DocByID |-> <<>>, totalLen |-> 0, AvgDocLen |-> <<0, 1>>,
               VocabSize |-> 0]
Lookup(f, x, default) == IF x \in DOMAIN f THEN f[x] ELSE default
Put(f, x, v) == [y \in (DOMAIN f) \cup {x} |-> IF y = x THEN v ELSE f[y]]

\* buildIndex lines 70-80, the loop over one document's terms
RECURSIVE AddTerms(_, _, _, _, _)
AddTerms(ix, id, terms, i, seen) ==
    IF i > Len(terms) THEN ix
    ELSE LET t == terms[i]
             row == Lookup(ix.TF, t, <<>>)
             tf1 == Put(ix.TF, t, Put(row, id, Lookup(row, id, 0) + 1))
             df1 == IF t \in seen THEN ix.DF ELSE Put(ix.DF, t, Lookup(ix.DF, t, 0) + 1)
         IN AddTerms([ix EXCEPT !.TF = tf1, !.DF = df1], id, terms, i + 1, seen \cup {t})

\* buildIndex lines 67-83, one document
AddDoc(ix, d) ==
    LET ix1 == AddTerms([ix EXCEPT !.DocByID = Put(ix.DocByID, d.ID, d)],
                        d.ID, d.Terms, 1, {})
    IN [ix1 EXCEPT !.DocLen = Put(ix1.DocLen, d.ID, Len(d.Terms)),
                   !.totalLen = ix1.totalLen + Len(d.Terms)]

RECURSIVE AddDocs(_, _, _)
AddDocs(ix, docs, i) ==
    IF i > Len(docs) THEN ix ELSE AddDocs(AddDoc(ix, docs[i]), docs, i + 1)

\* lines 84-86: AvgDocLen = float64(totalLen) / float64(len(docs)) if len(docs) > 0
AvgOf(totalLen, nDocs) == IF nDocs > 0 THEN <<totalLen, nDocs>> ELSE <<0, 1>>

\* buildIndex lines 56-89
buildIndex(docs) ==
    LET ix == AddDocs([EmptyIndex EXCEPT !.Docs = docs], docs, 1)
    IN [ix EXCEPT !.AvgDocLen = AvgOf(ix.totalLen, Len(docs)),
                  !.VocabSize = Cardinality(DOMAIN ix.TF)]

\* bm25Score lines 92-110: the sum over the query terms, in their order;
\* a term no document has is passed over (line 100)
RECURSIVE bm25From(_, _, _, _)
bm25From(ix, qTerms, docID, i) ==
    IF i > Len(qTerms) THEN FxZero
    ELSE LET qt == qTerms[i]
             rest == bm25From(ix, qTerms, docID, i + 1)
         IN IF Lookup(ix.DF, qt, 0) = 0 THEN rest
            ELSE FxAdd(bm25Term(Len(ix.Docs), ix.DF[qt],
                                Lookup(ix.TF[qt], docID, 0),
                                Lookup(ix.DocLen, docID, 0), ix.totalLen),
                       rest)
bm25Score(ix, qTerms, docID) == bm25From(ix, qTerms, docID, 1)

RECURSIVE SumOver(_, _)
SumOver(S, f) ==
    IF S = {} THEN 0
    ELSE LET x == CHOOSE y \in S : TRUE IN f[x] + SumOver(S \ {x}, f)

\* cosineTF lines 113-142
cosineTF(ix, qTerms, docID) ==
    LET qs == Range(qTerms)
        qtFreq == [t \in qs |-> Count(qTerms, t)]
        dtf == [t \in qs |-> Lookup(Lookup(ix.TF, t, <<>>), docID, 0)]
        dot == SumOver(qs, [t \in qs |-> qtFreq[t] * dtf[t]])
        qn == SumOver(qs, [t \in qs |-> qtFreq[t] * qtFreq[t]])
        dn == SumOver(qs, [t \in qs |-> dtf[t] * dtf[t]])
    IN IF qn = 0 \/ dn = 0 THEN FxZero ELSE CosTable[<<dot, qn, dn>>]

\* Search line 168 with alpha = 0.2: s = b * 0.8 + c * 0.2, kept five-fold
Blend(b, c) == FxAdd(FxMul(b, 4), c)

\* Search lines 158-163
Candidates(ix, q) ==
    UNION {DOMAIN Lookup(ix.TF, q[i], <<>>) : i \in 1..Len(q)}

\* Search line 171: sort.Slice with less = (scores[i].s > scores[j].s)
SortedAscending(order, s) ==
    \A i \in 1..(Len(order) - 1) : ~FxLess(s[order[i + 1]], s[order[i]])
SortedByScore(order, s) ==
    \A i \in 1..(Len(order) - 1) : ~FxLess(s[order[i]], s[order[i + 1]])

\* Search lines 175-179
HitsOf(ix, order, s) ==
    [i \in 1..Len(order) |->
        [ID |-> order[i], Score |-> s[order[i]], SnippetOf |-> ix.DocByID[order[i]].Text]]

NoSearch == [query |-> <<>>, q |-> <<>>, k |-> 0, cands |-> {}, scores |-> <<>>,
             panic |-> FALSE, hits |-> <<>>]

SearchInit ==
    /\ index = EmptyIndex
    /\ spc = "new"
    /\ lastSearch = NoSearch

SearchIdle ==
    /\ index = <<>>
    /\ spc = "off"
    /\ lastSearch = <<>>

\* LoadIndexFromConfig lines 221-240
LoadIndex ==
    /\ spc = "new"
    /\ \E tree \in Trees : index' = buildIndex(DocsFrom(tree, 1))
    /\ spc' = "built"
    /\ UNCHANGED lastSearch
    /\ UNCHANGED notSearch

\* Inverted.Search lines 150-181, once on the index built.  The candidates are scored in the iteration
\* order of a map and sorted by sort.Slice, which is not stable: any order in
\* which no score is below a later one can come out.  scores[:k] panics for a
\* negative k.
Search ==
    /\ spc = "built"
    /\ \E query \in QueryTexts :
         LET q == SearchTokens[query]
             cands == Candidates(index, q)
             s == [d \in cands |-> Blend(bm25Score(index, q, d), cosineTF(index, q, d))]
         IN \E order \in Perms(cands) :
              /\ SortedByScore(order, s)
              /\ \E k \in (-1)..MaxK :
                   lastSearch' =
                     [query |-> query, q |-> q, k |-> k, cands |-> cands,
                      scores |-> [i \in 1..Len(order) |-> [id |-> order[i], s |-> s[order[i]]]],
                      panic |-> (Len(order) > k /\ k < 0),
                      hits |-> IF Len(order) > k
                                 THEN (IF k < 0 THEN <<>>
                                       ELSE HitsOf(index, SubSeq(order, 1, k), s))
                                 ELSE HitsOf(index, order, s)]
    /\ spc' = "searched"
    /\ UNCHANGED index
    /\ UNCHANGED notSearch

SearchNext == LoadIndex \/ Search

\* ---- bm25Score's term as a function of tf
Bm25Inputs ==
    {a \in [N : 1..MaxN, df : 1..MaxN, docLen : 0..MaxDocTerms,
            totalLen : 1..(MaxN * MaxDocTerms)] :
        /\ a.df <= a.N
        /\ a.totalLen >= a.docLen
        /\ a.totalLen <= a.docLen + (a.N - 1) * MaxDocTerms}

Bm25Init ==
    /\ bmArgs \in Bm25Inputs
    /\ bmHist = <<>>

Bm25Idle ==
    /\ bmArgs = <<>>
    /\ bmHist = <<>>

\* bm25Score lines 103-107 for the next term frequency, from 0 on
Bm25Apply ==
    /\ bmArgs # <<>>
    /\ Len(bmHist) <= MaxTf
    /\ bmHist' = Append(bmHist, bm25Term(bmArgs.N, bmArgs.df, Len(bmHist),
                                         bmArgs.docLen, bmArgs.totalLen))
    /\ UNCHANGED bmArgs
    /\ UNCHANGED notBm25

Bm25Next == Bm25Apply

\* ==================================================== directory walk
\* chunker.readDocs (mcp.go lines 1316-1382).  filepath.Walk calls the function
\* once per entry under the root, in lexical order, with the entry's Lstat
\* info: a symlink is reported as a symlink (never as a directory) and is not
\* descended into.  An entry of the tree is its depth under the root and what
\* Lstat and the file name say of it; for a symlink, target says what the link
\* resolves to.  Files are not empty.
FileEntries ==
    [depth : 1..2, kind : {"file"}, excluded : {FALSE},
     ext : {"doc", "code", "other"}, big : BOOLEAN, target : {"self"}]
DirEntries ==
    [depth : 1..2, kind : {"dir"}, excluded : BOOLEAN,
     ext : {"other"}, big : {FALSE}, target : {"self"}]
LinkEntries ==
    [depth : 1..2, kind : {"symlink"}, excluded : {FALSE},
     ext : {"doc", "code"}, big : {FALSE}, target : {"inside", "outside", "dir"}]
WalkEntries == FileEntries \cup DirEntries \cup LinkEntries

\* an entry at depth 2 lies in the directory at depth 1 before it
WellFormedTree(t) ==
    \A i \in 1..Len(t) :
        t[i].depth = 2 =>
            /\ i > 1
            /\ \/ t[i - 1].depth = 2
               \/ t[i - 1].kind = "dir"
WalkTrees ==
    UNION {{t \in [1..len -> WalkEntries] : WellFormedTree(t)} : len \in 0..MaxEntries}
WalkConfigs == [FollowSymlinks : BOOLEAN, includeCode : BOOLEAN, limited : BOOLEAN]

\* where the bytes os.ReadFile(path) returns come from
ResolvedPlace(e) ==
    IF e.kind = "file" \/ e.target = "inside" THEN "inside" ELSE "outside"

\* line 1344: filepath.Abs(path) is the root's absolute path joined with the
\* entry's path below the root; Abs cleans the path and resolves no link
AbsUnderBase(e) == TRUE

\* filepath.SkipDir from a directory: the walk goes on after its entries
AfterDir(t, i) ==
    LET later == {j \in (i + 1)..Len(t) : t[j].depth <= t[i].depth}
    IN IF later = {} THEN Len(t) + 1
       ELSE CHOOSE j \in later : \A k \in later : j <= k

WalkInit ==
    /\ wTree \in WalkTrees
    /\ wCfg \in WalkConfigs
    /\ wPos = 1
    /\ wOut = <<>>
    /\ wReads = <<>>
    /\ wErr = FALSE

WalkIdle ==
    /\ wTree = <<>>
    /\ wCfg = <<>>
    /\ wPos = 0
    /\ wOut = <<>>
    /\ wReads = <<>>
    /\ wErr = FALSE

\* lines 1353-1360 and 1366-1376: the size check, os.ReadFile, append
ReadAndAppend(e) ==
    IF wCfg.limited /\ e.big
      THEN /\ wPos' = wPos + 1
           /\ UNCHANGED <<wOut, wReads, wErr>>
    ELSE IF e.kind = "symlink" /\ e.target = "dir"
      THEN /\ wErr' = TRUE
           /\ wPos' = Len(wTree) + 1
           /\ UNCHANGED <<wOut, wReads>>
    ELSE /\ wReads' = Append(wReads, [entry |-> wPos, place |-> ResolvedPlace(e)])
         /\ wOut' = Append(wOut, wPos)
         /\ wPos' = wPos + 1
         /\ UNCHANGED wErr

\* the function readDocs hands to filepath.Walk (lines 1326-1380), one entry
WalkFn ==
    /\ wPos >= 1 /\ wPos <= Len(wTree)
    /\ LET e == wTree[wPos] IN
       IF e.kind = "symlink" /\ ~wCfg.FollowSymlinks
         THEN /\ wPos' = wPos + 1
              /\ UNCHANGED <<wOut, wReads, wErr>>
       ELSE IF e.kind = "dir"
         THEN /\ wPos' = IF e.excluded THEN AfterDir(wTree, wPos) ELSE wPos + 1
              /\ UNCHANGED <<wOut, wReads, wErr>>
       ELSE IF ~AbsUnderBase(e)
         THEN /\ wPos' = wPos + 1
              /\ UNCHANGED <<wOut, wReads, wErr>>
       ELSE IF e.ext = "doc" \/ (wCfg.includeCode /\ e.ext = "code")
         THEN ReadAndAppend(e)
       ELSE /\ wPos' = wPos + 1
            /\ UNCHANGED <<wOut, wReads, wErr>>
    /\ UNCHANGED <<wTree, wCfg>>
    /\ UNCHANGED notWalk

WalkNext == WalkFn

\* ======================================================== hash bucket
\* one round of the loop of lines 1248-1254 for a vocabulary index idx, a hash
\* seed h and a dimension p.dim > 0
BucketInputs == [idx : 0..(Len(Md5Head) - 1), h : 0..2, D : 1..MaxBucketDim]

BucketInit ==
    /\ bkArgs \in BucketInputs
    /\ bkPos = -1

BucketIdle ==
    /\ bkArgs = <<>>
    /\ bkPos = -1

\* lines 1249-1252
BucketApply ==
    /\ bkArgs # <<>>
    /\ bkPos = -1
    /\ bkPos' = Bucket(bkArgs.idx, bkArgs.h, bkArgs.D)
    /\ UNCHANGED bkArgs
    /\ UNCHANGED notBucket

BucketNext == BucketApply

\* ========================================================= MCP server
\* main (main.go lines 20-480): the start-up sequence and the request loop.
\* A message read from stdin is its method and, for tools/call, whether
\* json.Unmarshal decodes its params, the tool's name and, for rag_search,
\* the query argument; id is req.ID, "nil" for a message without id.
ReqIds == {"nil", "1", "2"}
Tools == {"rag_index", "rag_search", "rag_projects", "status_get", "no_such_tool"}
RagTools == {"rag_index", "rag_search", "rag_projects"}
PlainMethods == {"initialize", "tools/list", "notifications/initialized", "no/such/method"}
ToolCalls ==
    {m \in [method : {"tools/call"}, paramsOk : BOOLEAN, tool : Tools, query : {"", "q"},
             id : ReqIds] :
        m.query = "q" => m.tool = "rag_search"}
Plain(meth, id) == [method |-> meth, paramsOk |-> TRUE, tool |-> "", query |-> "", id |-> id]
Messages ==
    {Plain(meth, id) : meth \in PlainMethods, id \in ReqIds} \cup ToolCalls

HealthAttempts == 5

Result == [kind |-> "result", code |-> 0]
ErrorReply(code) == [kind |-> "error", code |-> code]
\* what one pass of the loop does: the responses written, the calls of VecRAG
\* methods (embedding provider and Qdrant), the Qdrant probes of status_get
Pass(replies, nRag, nProbes) ==
    [replies |-> replies, ragCalls |-> nRag, probes |-> nProbes]

SrvInit ==
    /\ noQdrant \in BOOLEAN
    /\ srvPc = "start"
    /\ health = <<>>
    /\ rag = "nil"
    /\ reads = <<>>
    /\ out = <<>>
    /\ ragCalls = 0
    /\ probes = 0

SrvIdle ==
    /\ noQdrant = FALSE
    /\ srvPc = "off"
    /\ health = <<>>
    /\ rag = "nil"
    /\ reads = <<>>
    /\ out = <<>>
    /\ ragCalls = 0
    /\ probes = 0

\* lines 66-69: degraded mode skips the health check and the RAG initialisation
MainStart ==
    /\ srvPc = "start"
    /\ srvPc' = IF noQdrant THEN "serving" ELSE "health"
    /\ UNCHANGED <<noQdrant, health, rag, reads, out, ragCalls, probes>>
    /\ UNCHANGED notSrv

\* lines 72-84 after the attempt-th q.HealthCheck(): break on success, the next
\* attempt on failure, log.Fatalf when the loop ends with healthErr set
AfterHealthCheckServingAnyway(ok, attempt) ==
    IF ok THEN "ragInit"
    ELSE IF attempt < HealthAttempts THEN "health" ELSE "ragInit"
AfterHealthCheck(ok, attempt) ==
    IF ok THEN "ragInit"
    ELSE IF attempt < HealthAttempts THEN "health" ELSE "exited"

\* one round of the loop of lines 72-81
HealthCheck ==
    /\ srvPc = "health"
    /\ \E ok \in BOOLEAN :
         /\ health' = Append(health, ok)
         /\ srvPc' = AfterHealthCheck(ok, Len(health) + 1)
    /\ UNCHANGED <<noQdrant, rag, reads, out, ragCalls, probes>>
    /\ UNCHANGED notSrv

\* lines 85-90: ragvec.NewVecRAGWithConfig
RagInit ==
    /\ srvPc = "ragInit"
    /\ \E ok \in BOOLEAN :
         IF ok THEN rag' = "ready" /\ srvPc' = "serving"
               ELSE rag' = rag /\ srvPc' = "exited"
    /\ UNCHANGED <<noQdrant, health, reads, out, ragCalls, probes>>
    /\ UNCHANGED notSrv

\* rpc.Read returned msg and the pass wrote p.replies: back to the top of the loop
Served(msg, p) ==
    /\ reads' = Append(reads, msg)
    /\ out' = out \o [i \in 1..Len(p.replies) |->
                        [msg |-> Len(reads) + 1, kind |-> p.replies[i].kind,
                         code |-> p.replies[i].code, id |-> msg.id]]
    /\ ragCalls' = ragCalls + p.ragCalls
    /\ probes' = probes + p.probes
    /\ UNCHANGED <<noQdrant, health, rag, srvPc>>
    /\ UNCHANGED notSrv

CanRead == srvPc = "serving" /\ Len(reads) < MaxMessages

\* lines 102-112: rpc.Read fails; a parse error is answered with -32700
ReadError ==
    /\ CanRead
    /\ \E eof \in BOOLEAN :
         /\ reads' = Append(reads, Plain(IF eof THEN "EOF" ELSE "parse error", "nil"))
         /\ out' = IF eof THEN out
                   ELSE Append(out, [msg |-> Len(reads) + 1, kind |-> "error", code |-> -32700,
                                     id |-> "nil"])
    /\ srvPc' = "exited"
    /\ UNCHANGED <<noQdrant, health, rag, ragCalls, probes>>
    /\ UNCHANGED notSrv

\* lines 119-125
Initialize ==
    /\ CanRead
    /\ \E id \in ReqIds : Served(Plain("initialize", id), Pass(<<Result>>, 0, 0))

\* lines 127-223
ToolsList ==
    /\ CanRead
    /\ \E id \in ReqIds : Served(Plain("tools/list", id), Pass(<<Result>>, 0, 0))

\* the guards of lines 239, 287 and 335
RagNeverNil(r) == FALSE
RagIsNil(r) == r = "nil"

\* lines 238-284, 286-333, 334-373: a RAG tool with the system's state r; ok
\* says whether the VecRAG method returns without error
RagTool(msg, r, ok) ==
    IF RagIsNil(r) THEN Pass(<<ErrorReply(-32001)>>, 0, 0)
    ELSE IF msg.tool = "rag_index"
      THEN Pass(<<IF ok THEN Result ELSE ErrorReply(-32002)>>, 1, 0)
    ELSE IF msg.tool = "rag_search"
      THEN IF msg.query = "" THEN Pass(<<ErrorReply(-32602)>>, 0, 0)
           ELSE Pass(<<IF ok THEN Result ELSE ErrorReply(-32003)>>, 1, 0)
    ELSE Pass(<<IF ok THEN Result ELSE ErrorReply(-32004)>>, 1, 0)

\* lines 225-464
CallTool(msg, r, ok) ==
    IF ~msg.paramsOk THEN Pass(<<ErrorReply(-32602)>>, 0, 0)
    ELSE IF msg.tool \in RagTools THEN RagTool(msg, r, ok)
    ELSE IF msg.tool = "status_get" THEN Pass(<<Result>>, 0, 1)
    ELSE Pass(<<ErrorReply(-32601)>>, 0, 0)

ToolsCall ==
    /\ CanRead
    /\ \E msg \in ToolCalls, ok \in BOOLEAN : Served(msg, CallTool(msg, rag, ok))

\* lines 467-473 and, in the version before, lines 855-859, which replied
InitializedNotificationBefore(msg) == Pass(<<Result>>, 0, 0)
InitializedNotification(msg) == Pass(<<>>, 0, 0)

Initialized ==
    /\ CanRead
    /\ \E id \in ReqIds :
         LET msg == Plain("notifications/initialized", id)
         IN Served(msg, InitializedNotification(msg))

\* lines 475-477
UnknownMethod ==
    /\ CanRead
    /\ \E id \in ReqIds :
         Served(Plain("no/such/method", id), Pass(<<ErrorReply(-32601)>>, 0, 0))

SrvNext ==
    \/ MainStart
    \/ HealthCheck
    \/ RagInit
    \/ ReadError
    \/ Initialize
    \/ ToolsList
    \/ ToolsCall
    \/ Initialized
    \/ UnknownMethod

\* ============================================================ HTTP API
\* httpserver.Start (part_001 lines 22-229): every route is registered through
\* requireAuth.  Header values and the configured key are strings of runes;
\* "k" stands for the configured token, "w" and "kw" for other tokens.
RECURSIVE TrimLeft(_)
TrimLeft(s) ==
    IF s # <<>> /\ IsSpaceChar(Head(s)) THEN TrimLeft(Tail(s)) ELSE s
RECURSIVE TrimRight(_)
TrimRight(s) ==
    IF s # <<>> /\ IsSpaceChar(s[Len(s)]) THEN TrimRight(SubSeq(s, 1, Len(s) - 1)) ELSE s
\* strings.TrimSpace
TrimSpace(s) == TrimRight(TrimLeft(s))
\* strings.HasPrefix
HasPrefix(s, prefix) ==
    Len(s) >= Len(prefix) /\ SubSeq(s, 1, Len(prefix)) = prefix

BearerPrefix == <<"b", "e", "a", "r", "e", "r", " ">>
AuthorizationValues ==
    { <<>>,
      <<"B", "e", "a", "r", "e", "r", " ", "k">>,
      <<"b", "e", "a", "r", "e", "r", " ", "k">>,
      <<"B", "e", "a", "r", "e", "r", " ", " ", "k">>,
      <<"B", "e", "a", "r", "e", "r", " ", "w">>,
      <<"B", "e", "a", "r", "e", "r", " ", "k", "w">>,
      <<"B", "e", "a", "r", "e", "r">>,
      <<"B", "a", "s", "i", "c", " ", "k">>,
      <<"k">> }
XAPIKeyValues == { <<>>, <<"k">>, <<"w">>, <<"k", "w">> }
\* conf.HTTP.APIKey as configured
APIKeyValues == { <<>>, <<" ">>, <<"k">>, <<" ", "k", " ">> }
Routes == {"/status", "/rag/index", "/rag/search", "/rag/delete", "/rag/projects"}
Requests == [path : Routes, Authorization : AuthorizationValues, XAPIKey : XAPIKeyValues]
NoRequest == [path |-> "", Authorization |-> <<>>, XAPIKey |-> <<>>]

\* the statuses a handler writes: /status always 200 (line 120), the others
\* 200, 400, 500 or 503
HandlerStatuses(path) == IF path = "/status" THEN {200} ELSE {200, 400, 500, 503}

\* lines 31-36: the key the request presents
PresentedKey(r) ==
    IF HasPrefix(ToLower(r.Authorization), BearerPrefix)
      THEN TrimSpace(SubSeq(r.Authorization, 8, Len(r.Authorization)))
      ELSE r.XAPIKey

\* requireAuth (lines 25-45): TRUE when the wrapped handler is called
requireAuth(rawKey, r) ==
    LET apiKey == TrimSpace(rawKey) IN
    IF apiKey = <<>> THEN TRUE
    ELSE PresentedKey(r) = apiKey

HttpInit ==
    /\ hKey \in APIKeyValues
    /\ hPc = "listening"
    /\ hReq = NoRequest
    /\ hStatus = 0
    /\ hRan = FALSE

HttpIdle ==
    /\ hKey = <<>>
    /\ hPc = "off"
    /\ hReq = NoRequest
    /\ hStatus = 0
    /\ hRan = FALSE

\* one request served by the mux
ServeHTTP ==
    /\ hPc = "listening"
    /\ \E r \in Requests :
         /\ hReq' = r
         /\ IF requireAuth(hKey, r)
              THEN /\ hRan' = TRUE
                   /\ hStatus' \in HandlerStatuses(r.path)
              ELSE /\ hRan' = FALSE
                   /\ hStatus' = 401
    /\ hPc' = "answered"
    /\ UNCHANGED hKey
    /\ UNCHANGED notHttp

HttpNext == ServeHTTP

\* ============================================================== snippet
\* snippet (part_002 lines 183-218) on ASCII texts, where a byte is a rune.
\* strings.Index: the 0-based place of the first occurrence of t in s, or -1
IndexOf(s, t) ==
    LET places == {i \in 0..(Len(s) - Len(t)) : SubSeq(s, i + 1, i + Len(t)) = t}
    IN IF places = {} THEN -1
       ELSE CHOOSE i \in places : \A j \in places : i <= j

\* strings.ReplaceAll for a non-empty old
RECURSIVE ReplaceAll(_, _, _)
ReplaceAll(s, old, new) ==
    IF Len(s) < Len(old) THEN s
    ELSE IF SubSeq(s, 1, Len(old)) = old
      THEN new \o ReplaceAll(SubSeq(s, Len(old) + 1, Len(s)), old, new)
    ELSE <<Head(s)>> \o ReplaceAll(Tail(s), old, new)

UpperOf == [c \in Range(AsciiLower) |-> AsciiUpper[CHOOSE i \in 1..26 : AsciiLower[i] = c]]
\* strings.Title of one word
Title(t) ==
    IF t = <<>> THEN t
    ELSE <<IF Head(t) \in DOMAIN UpperOf THEN UpperOf[Head(t)] ELSE Head(t)>> \o Tail(t)

\* fmt.Sprintf("**%s**", t)
Starred(t) == <<"*", "*">> \o t \o <<"*", "*">>

\* lines 184: the text the terms are looked up in
RawText(text) == text
LookupText(text) == ToLower(text)

\* lines 186-194: the place of the first term of q, in q's order, that occurs
RECURSIVE FirstTermPos(_, _)
FirstTermPos(low, q) ==
    IF q = <<>> THEN -1
    ELSE IF Head(q) # <<>> /\ IndexOf(low, Head(q)) >= 0 THEN IndexOf(low, Head(q))
    ELSE FirstTermPos(low, Tail(q))

\* lines 210-216
RECURSIVE Emphasize(_, _)
Emphasize(seg, q) ==
    IF q = <<>> THEN seg
    ELSE IF Head(q) = <<>> THEN Emphasize(seg, Tail(q))
    ELSE Emphasize(ReplaceAll(ReplaceAll(seg, Head(q), Starred(Head(q))),
                              Title(Head(q)), Starred(Title(Head(q)))),
                   Tail(q))

\* snippet (lines 183-218): pos, the window text[start:end] and the string returned
snippet(text, q, max) ==
    LET pos == FirstTermPos(LookupText(text), q)
        from == IF pos - (max \div 3) < 0 THEN 0 ELSE pos - (max \div 3)
        to == IF from + max > Len(text) THEN Len(text) ELSE from + max
    IN IF pos = -1
         THEN [pos |-> pos, start |-> 0,
               end |-> IF Len(text) <= max THEN Len(text) ELSE max,
               seg |-> IF Len(text) <= max THEN text
                       ELSE SubSeq(text, 1, max) \o <<"...">>]
         ELSE [pos |-> pos, start |-> from, end |-> to,
               seg |-> Emphasize(SubSeq(text, from + 1, to), q)]

SnipChars == {"a", "A", "x"}
SnipTerms == {<<"a">>, <<"x">>, <<"a", "x">>, <<"x", "a">>}
SnipTexts == UNION {[1..len -> SnipChars] : len \in 0..MaxSnipText}
SnipQueries == UNION {[1..len -> SnipTerms] : len \in 0..MaxSnipTerms}
SnipMaxes == {3, MaxSnipText}

SnipInit ==
    /\ snArgs \in [text : SnipTexts, q : SnipQueries, max : SnipMaxes]
    /\ snOut = <<>>

SnipIdle ==
    /\ snArgs = <<>>
    /\ snOut = <<>>

SnipApply ==
    /\ snArgs # <<>>
    /\ snOut = <<>>
    /\ snOut' = snippet(snArgs.text, snArgs.q, snArgs.max)
    /\ UNCHANGED snArgs
    /\ UNCHANGED notSnip

SnipNext == SnipApply

\* ===================================================== project listing
\* A Go int (64 bits, two's complement) as <<h, m, l>>, the value
\* h * 2^60 + m * 2^30 + l with h in -8..7 and m, l in 0..2^30-1.
Limb == 1073741824
I64(k) == IF k >= 0 THEN <<0, 0, k>> ELSE <<-1, Limb - 1, Limb + k>>
MaxInt64 == <<7, Limb - 1, Limb - 1>>
\* x + y as the machine adds
Add64(x, y) ==
    LET l == x[3] + y[3]
        m == x[2] + y[2] + (l \div Limb)
        h == x[1] + y[1] + (m \div Limb)
    IN <<((h + 8) % 16) - 8, m % Limb, l % Limb>>
Less64(x, y) ==
    \/ x[1] < y[1]
    \/ x[1] = y[1] /\ x[2] < y[2]
    \/ x[1] = y[1] /\ x[2] = y[2] /\ x[3] < y[3]
\* the value of an int that fits the model's integers
Small(x) == IF x[1] = 0 /\ x[2] = 0 THEN x[3] ELSE x[3] - Limb

\* the byte of an ASCII letter
AsciiCode(c) ==
    IF c \in Range(AsciiUpper) THEN 64 + (CHOOSE i \in 1..26 : AsciiUpper[i] = c)
    ELSE 96 + (CHOOSE i \in 1..26 : AsciiLower[i] = c)
\* s < t for Go strings of ASCII letters
RECURSIVE StringLess(_, _)
StringLess(s, t) ==
    IF t = <<>> THEN FALSE
    ELSE IF s = <<>> THEN TRUE
    ELSE IF Head(s) # Head(t) THEN AsciiCode(Head(s)) < AsciiCode(Head(t))
    ELSE StringLess(Tail(s), Tail(t))

\* ListProjects (mcp.go lines 504-540): the projects of the collection, sorted
\* by name; names are map keys and so distinct
RECURSIVE ListProjects(_)
ListProjects(names) ==
    IF names = {} THEN <<>>
    ELSE LET least == CHOOSE x \in names : \A y \in names \ {x} : StringLess(x, y)
         IN <<least>> \o ListProjects(names \ {least})

\* lines 560-570
FilterByPrefix(list, prefix) ==
    LET fprefix == ToLower(TrimSpace(prefix)) IN
    IF fprefix = <<>> THEN list
    ELSE SelectSeq(list, LAMBDA name : HasPrefix(ToLower(name), fprefix))

\* ListProjectsFiltered (lines 555-590); offset and limit are Go ints
ListProjectsFiltered(names, prefix, offsetArg, limitArg) ==
    LET filtered == FilterByPrefix(ListProjects(names), prefix)
        total == Len(filtered)
        offset == IF Less64(offsetArg, I64(0)) THEN I64(0) ELSE offsetArg
        limit == IF ~Less64(I64(0), limitArg) THEN I64(50) ELSE limitArg
        sum == Add64(offset, limit)
        end == IF Less64(I64(total), sum) THEN I64(total) ELSE sum
    IN IF Less64(I64(total), offset)
         THEN [panic |-> FALSE, page |-> <<>>, total |-> total]
       ELSE IF Less64(end, offset)
         THEN [panic |-> TRUE, page |-> <<>>, total |-> total]
       ELSE [panic |-> FALSE, total |-> total,
             page |-> SubSeq(filtered, Small(offset) + 1, Small(end))]

ProjectNames == {<<"a">>, <<"D">>, <<"d">>, <<"d", "o">>}
Prefixes == {<<>>, <<"d">>, <<"D">>, <<"d", "o">>, <<"x">>}
Offsets == {I64(k) : k \in (-1)..(MaxProjects + 1)}
Limits == {I64(k) : k \in (-1)..2} \cup {MaxInt64}

ProjInit ==
    /\ lpArgs \in [names : {s \in SUBSET ProjectNames : Cardinality(s) <= MaxProjects},
                   prefix : Prefixes, offset : Offsets, limit : Limits]
    /\ lpOut = <<>>

ProjIdle ==
    /\ lpArgs = <<>>
    /\ lpOut = <<>>

ProjApply ==
    /\ lpArgs # <<>>
    /\ lpOut = <<>>
    /\ lpOut' = ListProjectsFiltered(lpArgs.names, lpArgs.prefix, lpArgs.offset, lpArgs.limit)
    /\ UNCHANGED lpArgs
    /\ UNCHANGED notProj

ProjNext == ProjApply

\* ============================================================ ingestion
\* VecRAG.IngestDocs (mcp.go lines 630-676) on the chunks 1..igN that MakeChunks
\* returned, with the BatchSize that Config.Validate accepted (> 0).
\* line 644-647: j, the end of the batch that starts at i (0-based, exclusive)
BatchEndOneMore(i, batchSize, len) ==
    IF i + batchSize + 1 > len THEN len ELSE i + batchSize + 1
BatchEnd(i, batchSize, len) ==
    IF i + batchSize > len THEN len ELSE i + batchSize

IngestInit ==
    /\ igN \in 0..MaxIngest
    /\ igBatch \in {b \in 0..MaxBatchSize : ~(b <= 0)}
    /\ igI = 0
    /\ igTotal = 0
    /\ igEmbedded = <<>>
    /\ igUpserted = <<>>
    /\ igPc = "start"
    /\ igRet = [n |-> 0, err |-> "nil"]

IngestIdle ==
    /\ igN = 0
    /\ igBatch = 0
    /\ igI = 0
    /\ igTotal = 0
    /\ igEmbedded = <<>>
    /\ igUpserted = <<>>
    /\ igPc = "off"
    /\ igRet = [n |-> 0, err |-> "nil"]

\* lines 635-641: no chunks, return 0, nil
IngestStart ==
    /\ igPc = "start"
    /\ igPc' = IF igN = 0 THEN "returned" ELSE "loop"
    /\ UNCHANGED <<igN, igBatch, igI, igTotal, igEmbedded, igUpserted, igRet>>
    /\ UNCHANGED notIngest

\* lines 642-673: one round of the loop; Embed or UpsertPoints may fail
IngestBatch ==
    /\ igPc = "loop"
    /\ igI < igN
    /\ LET j == BatchEnd(igI, igBatch, igN)
           batch == [k \in 1..(j - igI) |-> igI + k]
       IN \E outcome \in {"ok", "embed error", "upsert error"} :
            /\ igEmbedded' = Append(igEmbedded, batch)
            /\ igUpserted' = IF outcome = "embed error" THEN igUpserted
                             ELSE Append(igUpserted, batch)
            /\ IF outcome = "ok"
                 THEN /\ igTotal' = igTotal + Len(batch)
                      /\ igI' = igI + igBatch
                      /\ UNCHANGED <<igPc, igRet>>
                 ELSE /\ igRet' = [n |-> igTotal, err |-> outcome]
                      /\ igPc' = "returned"
                      /\ UNCHANGED <<igTotal, igI>>
    /\ UNCHANGED <<igN, igBatch>>
    /\ UNCHANGED notIngest

\* line 675: the loop is over, return total, nil
IngestReturn ==
    /\ igPc = "loop"
    /\ ~(igI < igN)
    /\ igRet' = [n |-> igTotal, err |-> "nil"]
    /\ igPc' = "returned"
    /\ UNCHANGED <<igN, igBatch, igI, igTotal, igEmbedded, igUpserted>>
    /\ UNCHANGED notIngest

IngestNext ==
    \/ IngestStart
    \/ IngestBatch
    \/ IngestReturn
\* ================================================================ StdioRPC.Read
\* Line-delimited requests on stdin.  Read peeks one byte through the
\* bufio.Reader and, on '{', hands the reader to a json.Decoder made for this
\* one call.  The decoder fills its own buffer from the reader (at least
\* MinRead bytes of room, as much as one read returns), decodes the first
\* value and is dropped with whatever else it took.  A line is modelled by its
\* length in bytes, newline included; the lengths are those of the requests
\* of the Makefile demos, and MaxLines of them fit in the decoder's first read.

BufioSize == 4096
MinRead == 512

LineLens == {59, 109, 128}

StdinLines == { l \in SeqsUpTo(LineLens, MaxLines) : Len(l) >= 1 }

RECURSIVE SumLens(_, _)
SumLens(lines, upto) ==
    IF upto = 0 THEN 0 ELSE SumLens(lines, upto - 1) + lines[upto]

\* the line that starts at byte offset off of the stream (0 if none does)
LineAt(lines, off) ==
    LET s == { i \in 1..Len(lines) : SumLens(lines, i - 1) = off }
    IN  IF s = {} THEN 0 ELSE CHOOSE i \in s : TRUE

\* bytes the client has written that no read has taken yet
Unread == SumLens(stdinLines, stdinSent) - rdTaken

ReadInit ==
    /\ stdinLines \in StdinLines
    /\ stdinSent = 0
    /\ stdinClosed = FALSE
    /\ rdTaken = 0
    /\ rdReturned = <<>>
    /\ rdAvail = <<>>
    /\ rdEof = FALSE

ReadIdle ==
    /\ stdinLines = <<>>
    /\ stdinSent = 0
    /\ stdinClosed = FALSE
    /\ rdTaken = 0
    /\ rdReturned = <<>>
    /\ rdAvail = <<>>
    /\ rdEof = FALSE

\* the client writes its next line (printf '%s\n' ... writes one after another)
ClientWrite ==
    /\ ~stdinClosed
    /\ stdinSent < Len(stdinLines)
    /\ stdinSent' = stdinSent + 1
    /\ UNCHANGED <<stdinLines, stdinClosed, rdTaken, rdReturned, rdAvail, rdEof>>
    /\ UNCHANGED notRead

\* the pipe's writing end is closed once everything is written
ClientClose ==
    /\ ~stdinClosed
    /\ stdinSent = Len(stdinLines)
    /\ stdinClosed' = TRUE
    /\ UNCHANGED <<stdinLines, stdinSent, rdTaken, rdReturned, rdAvail, rdEof>>
    /\ UNCHANGED notRead

\* bytes a decoder made for one call takes out of the reader: Peek(1) fills
\* the reader's buffer with one read of stdin, the decoder's first refill
\* copies what fits in its MinRead bytes of room
DecoderTakes(unread) == Min(MinRead, Min(BufioSize, unread))

\* Peek(1) blocks while stdin is open and empty
ReadRequest ==
    /\ ~rdEof
    /\ Unread > 0
    /\ rdReturned' = Append(rdReturned, LineAt(stdinLines, rdTaken))
    /\ rdAvail' = Append(rdAvail, Unread)
    /\ rdTaken' = rdTaken + DecoderTakes(Unread)
    /\ UNCHANGED <<stdinLines, stdinSent, stdinClosed, rdEof>>
    /\ UNCHANGED notRead

\* Peek(1) fails with EOF; main's loop returns on it
ReadEOF ==
    /\ ~rdEof
    /\ Unread = 0
    /\ stdinClosed
    /\ rdEof' = TRUE
    /\ UNCHANGED <<stdinLines, stdinSent, stdinClosed, rdTaken, rdReturned, rdAvail>>
    /\ UNCHANGED notRead

ReadNext ==
    \/ ClientWrite
    \/ ClientClose
    \/ ReadRequest
    \/ ReadEOF
\* ================================================================ project of a path
\* The three derivations of a project name from a chunk's payload path.  A
\* path is a sequence of characters; d and r stand for the letters of names.

PathChars == {"/", ".", "d", "r"}
PathArgs == SeqsUpTo(PathChars, MaxPath)

IsPathSeparator(c) == c = "/"

\* the 1-based place of the last separator of path, 0 when it has none
\* (strings.LastIndex(p, "/") + 1, and the loops of filepath.Dir and Base)
LastSeparator(path) ==
    LET s == { i \in 1..Len(path) : IsPathSeparator(path[i]) }
    IN  IF s = {} THEN 0 ELSE CHOOSE i \in s : \A j \in s : j <= i

\* filepath.Clean's backtrack over the last element of the buffer: the new out.w
RECURSIVE BackTrack(_, _, _)
BackTrack(buf, w, dotdot) ==
    IF w > dotdot /\ ~IsPathSeparator(buf[w + 1]) THEN BackTrack(buf, w - 1, dotdot) ELSE w

\* the place after the element of path that starts at r
RECURSIVE ElementEnd(_, _)
ElementEnd(path, r) ==
    IF r <= Len(path) /\ ~IsPathSeparator(path[r]) THEN ElementEnd(path, r + 1) ELSE r

\* filepath.Clean's loop; r is 1-based, buf is the buffer out (out.w = Len(buf))
RECURSIVE CleanLoop(_, _, _, _, _)
CleanLoop(path, r, buf, dotdot, rooted) ==
    LET len == Len(path) IN
    IF r > len THEN (IF buf = <<>> THEN <<".">> ELSE buf)
    ELSE IF IsPathSeparator(path[r]) THEN CleanLoop(path, r + 1, buf, dotdot, rooted)
    ELSE IF path[r] = "." /\ (r = len \/ IsPathSeparator(path[r + 1]))
      THEN CleanLoop(path, r + 1, buf, dotdot, rooted)
    ELSE IF path[r] = "." /\ path[r + 1] = "." /\ (r + 1 = len \/ IsPathSeparator(path[r + 2]))
      THEN IF Len(buf) > dotdot
             THEN CleanLoop(path, r + 2,
                            SubSeq(buf, 1, BackTrack(buf, Len(buf) - 1, dotdot)),
                            dotdot, rooted)
           ELSE IF ~rooted
             THEN LET o == (IF Len(buf) > 0 THEN buf \o <<"/">> ELSE buf) \o <<".", ".">>
                  IN  CleanLoop(path, r + 2, o, Len(o), rooted)
           ELSE CleanLoop(path, r + 2, buf, dotdot, rooted)
    ELSE LET e == ElementEnd(path, r)
             o == IF (rooted /\ Len(buf) # 1) \/ (~rooted /\ Len(buf) # 0)
                    THEN buf \o <<"/">> ELSE buf
         IN  CleanLoop(path, e, o \o SubSeq(path, r, e - 1), dotdot, rooted)

\* filepath.Clean
Clean(path) ==
    IF path = <<>> THEN <<".">>
    ELSE IF IsPathSeparator(path[1]) THEN CleanLoop(path, 2, <<"/">>, 1, TRUE)
    ELSE CleanLoop(path, 1, <<>>, 0, FALSE)

\* filepath.Dir
Dir(path) == Clean(SubSeq(path, 1, LastSeparator(path)))

\* filepath.Base
RECURSIVE StripTrailingSeparators(_)
StripTrailingSeparators(path) ==
    IF Len(path) > 0 /\ IsPathSeparator(path[Len(path)])
      THEN StripTrailingSeparators(SubSeq(path, 1, Len(path) - 1)) ELSE path
Base(path) ==
    IF path = <<>> THEN <<".">>
    ELSE LET p == StripTrailingSeparators(path)
             q == SubSeq(p, LastSeparator(p) + 1, Len(p))
         IN  IF q = <<>> THEN <<"/">> ELSE q

Unknown == <<"u", "n", "k", "n", "o", "w", "n">>
Root == <<"r", "o", "o", "t">>

\* ragvec's projectFromPath (mcp.go lines 542-551)
projectFromPath(p) ==
    IF p = <<>> THEN Unknown
    ELSE LET dir == Dir(p) IN
         IF dir = <<".">> \/ dir = <<"/">> THEN Root ELSE Base(dir)

\* main's ragvecProjectFromPath (main.go lines 497-507)
ragvecProjectFromPath(p) ==
    IF p = <<>> THEN Unknown
    ELSE LET dir == Dir(p) IN
         IF dir = <<".">> \/ dir = <<"/">> THEN Root ELSE Base(dir)

\* httpserver's projectFromPath (lines 252-267): LastSeparator is idx + 1
httpserverProjectFromPath(p) ==
    IF p = <<>> THEN Unknown
    ELSE LET idx == LastSeparator(p) IN
         IF idx = 0 THEN Root
         ELSE LET rest == SubSeq(p, 1, idx - 1)
                  j == LastSeparator(rest)
              IN  IF j = 0 THEN rest ELSE SubSeq(rest, j + 1, Len(rest))

PathInit ==
    /\ pjPath \in PathArgs
    /\ pjOut = <<>>

PathIdle ==
    /\ pjPath = <<>>
    /\ pjOut = <<>>

\* the three derivations applied to the path of one chunk
PathApply ==
    /\ pjOut = <<>>
    /\ pjOut' = [ragvec |-> projectFromPath(pjPath),
                 main |-> ragvecProjectFromPath(pjPath),
                 http |-> httpserverProjectFromPath(pjPath)]
    /\ UNCHANGED pjPath
    /\ UNCHANGED notPath

PathNext == PathApply

\* ================================================================ chunker
\* The longest window list the model follows; a call that would append more
\* is a call whose loop does not end.
MaxChunks == MaxLen + 2

ChunkInit ==
    /\ n \in 0..MaxLen
    /\ sizeArg \in (-1)..MaxSize
    /\ overlapArg \in (-1)..MaxOverlap
    /\ size = sizeArg
    /\ overlap = overlapArg
    /\ start = 0
    /\ chunks = <<>>
    /\ cpc = "entry"

ChunkIdle ==
    /\ n = 0 /\ sizeArg = 0 /\ overlapArg = 0 /\ size = 0 /\ overlap = 0
    /\ start = 0 /\ chunks = <<>> /\ cpc = "idle"

\* chunkText lines 1385-1394: default size, clamp overlap, enter the loop
\* (for start := 0; start < n;) or return at once when the text is empty.
ClampSize(s) == IF s <= 0 THEN DefaultSize ELSE s
ClampOverlap(o) == IF o < 0 THEN 0 ELSE o

ChunkEnter ==
    /\ cpc = "entry"
    /\ size' = ClampSize(sizeArg)
    /\ overlap' = ClampOverlap(overlapArg)
    /\ start' = 0
    /\ chunks' = <<>>
    /\ cpc' = IF 0 < n THEN "loop" ELSE "done"
    /\ UNCHANGED <<n, sizeArg, overlapArg>>
    /\ UNCHANGED notChunk

\* the next value of start after a window ending at end (lines 1403-1406)
NextStartShort(end) == Max(end - overlap - 1, 0)
NextStart(end) == Max(end - overlap, 0)

\* one iteration of the loop body, lines 1395-1406
ChunkStep ==
    /\ cpc = "loop"
    /\ Len(chunks) < MaxChunks
    /\ LET end == Min(start + size, n) IN
         /\ chunks' = Append(chunks, <<start, end>>)
         /\ IF end = n
              THEN /\ cpc' = "done"
                   /\ start' = start
              ELSE /\ start' = NextStart(end)
                   /\ cpc' = IF NextStart(end) < n THEN "loop" ELSE "done"
    /\ UNCHANGED <<n, sizeArg, overlapArg, size, overlap>>
    /\ UNCHANGED notChunk

ChunkNext == ChunkEnter \/ ChunkStep

InitChunk == ChunkInit /\ TokIdle /\ ProvIdle /\ ConcIdle /\ SearchIdle /\ Bm25Idle /\ WalkIdle /\ BucketIdle /\ SrvIdle /\ HttpIdle /\ SnipIdle /\ ProjIdle /\ IngestIdle /\ ReadIdle /\ PathIdle

SpecChunk == InitChunk /\ [][ChunkNext]_vars

\* C1: chunkText terminates for every text, size and overlap: from one
\* iteration of the loop to the next the window start strictly increases,
\* by at least size - overlap.
C1_StartAdvances ==
    [][(cpc = "loop" /\ cpc' = "loop")
          => (start' > start /\ start' - start >= size - overlap)]_vars

\* C2: for size > 0 every window is non-empty, every window but the last has
\* exactly size runes, consecutive windows share exactly min(overlap, size)
\* runes (overlap as clamped to >= 0), and the returned windows cover every
\* rune of the text.
Covered(r) == \E i \in 1..Len(chunks) : chunks[i][1] <= r /\ r < chunks[i][2]

C2_WindowsCoverAndOverlap ==
    (sizeArg > 0 /\ cpc \in {"loop", "done"}) =>
        /\ \A i \in 1..Len(chunks) :
              /\ chunks[i][1] < chunks[i][2]
              /\ chunks[i][2] - chunks[i][1] <= size
              /\ (i < Len(chunks) => chunks[i][2] - chunks[i][1] = size)
        /\ \A i \in 1..(Len(chunks) - 1) :
              chunks[i][2] - chunks[i + 1][1] = Min(overlap, size)
        /\ (cpc = "done" => \A r \in 0..(n - 1) : Covered(r))

\* the spec's scenario: 25 runes, size 10, overlap 3
C2_Witness ==
    /\ cpc = "done" /\ n = 25 /\ sizeArg = 10 /\ overlapArg = 3
    /\ chunks = << <<0, 10>>, <<7, 17>>, <<14, 24>>, <<21, 25>> >>

\* ------------------------------------------------------------- tokenizers
TokNext == Tokenize

InitTok == TokInit /\ ChunkIdle /\ ProvIdle /\ ConcIdle /\ SearchIdle /\ Bm25Idle /\ WalkIdle /\ BucketIdle /\ SrvIdle /\ HttpIdle /\ SnipIdle /\ ProjIdle /\ IngestIdle /\ ReadIdle /\ PathIdle

SpecTok == InitTok /\ [][TokNext]_vars

AllAsciiLetters == \A i \in 1..Len(tokText) : tokText[i] \notin NonAsciiLetters

\* C10 (as claimed): for every text the token sequence of the index tokenizer
\* equals the token sequence of the embedding tokenizer.
C10_SameTokenSequence == tpc = "done" => idxTokens = embTokens

\* C10 (amended): the index tokenizer drops nothing; on a text whose letters
\* are all ASCII the embedding tokenizer's sequence is the index tokenizer's
\* sequence without the terms of at most 2 bytes and without the stop words.
C10_EmbTokensAreFilteredIdxTokens ==
    (tpc = "done" /\ AllAsciiLetters) => embTokens = SelectSeq(idxTokens, KeepTerm)

\* a text with a kept term, a stop word and a short term
C10_Witness ==
    /\ tpc = "done" /\ AllAsciiLetters
    /\ Len(embTokens) = 1 /\ Len(idxTokens) = 2
    /\ \E i \in 1..2 : idxTokens[i] \in stopWords

\* ---------------------------------------------------------------- provider
InitProv == ProvInit /\ ChunkIdle /\ TokIdle /\ ConcIdle /\ SearchIdle /\ Bm25Idle /\ WalkIdle /\ BucketIdle /\ SrvIdle /\ HttpIdle /\ SnipIdle /\ ProjIdle /\ IngestIdle /\ ReadIdle /\ PathIdle

SpecProv == InitProv /\ [][ProvNext]_vars

\* C3: Embed on a provider whose vocabulary is not built returns
\* a "not built" error and builds nothing.
C3_EmbedUnbuiltFailsFast ==
    (lastCall.op = "Embed" /\ lastCall.wasEmpty) =>
        (lastCall.err = "not built" /\ Cardinality(DOMAIN vocab) = 0)

IsZeroVector(v) == \A k \in 1..Len(v) : v[k] = FZero

\* C5: every vector Embed returns has exactly dim elements, whatever the
\* vocabulary size and the text.
C5_VectorsHaveDim ==
    (lastCall.op = "Embed" /\ ~lastCall.panic) =>
        \A i \in 1..Len(lastCall.embeddings) : Len(lastCall.embeddings[i]) = dim

\* after BuildVocab: a batch of an empty text and a text with a vocabulary
\* term, a vocabulary smaller than dim
C5_Witness ==
    /\ lastCall.op = "Embed" /\ ~lastCall.panic /\ ~lastCall.wasEmpty
    /\ dim = 2 /\ vocabSize = 1 /\ Len(lastCall.embeddings) = 2
    /\ lastCall.texts[1] = <<>>
    /\ ~IsZeroVector(lastCall.embeddings[2])

\* C15: for every dimension the configuration validation accepts and every
\* text, Embed returns without panic one vector of dim elements per text, and a
\* vector whose norm is zero is returned all-zero.
C15_EmbedNeverPanicsForValidDim ==
    (lastCall.op = "Embed" /\ Validate(ConfigWithDim(dim)) = "nil") =>
        /\ ~lastCall.panic
        /\ Len(lastCall.embeddings) = Len(lastCall.texts)
        /\ \A i \in 1..Len(lastCall.embeddings) :
              /\ Len(lastCall.embeddings[i]) = dim
              /\ SumSquares(lastCall.embeddings[i], 1, FZero)[1] = 0 => IsZeroVector(lastCall.embeddings[i])

\* C6: Embed is deterministic: the vectors a call returns are the vectors that
\* every iteration order of the sparse (index, weight) pairs gives for the
\* same text and the same vocabulary and IDF table.
C6_EmbedIndependentOfFoldOrder ==
    (lastCall.op = "Embed" /\ ~lastCall.panic) =>
        \A i \in 1..Len(lastCall.texts) :
            \A o \in Outcomes(Provider, dim, lastCall.texts[i]) :
                o.vector = lastCall.embeddings[i]

\* C13: a build gives each unique term of its corpus the index of the term's
\* place in the byte-sorted list of the corpus's unique terms: the indexes of
\* the corpus's terms are 0 .. n-1 and rise with the terms' order.
Built == lastCall.op = "BuildVocab" \/ (lastCall.op = "Embed" /\ lastCall.wasEmpty)
C13_CorpusTermsIndexedInSortedOrder ==
    Built =>
        /\ lastCall.terms \subseteq DOMAIN vocab
        /\ {vocab[t] : t \in lastCall.terms} = 0..(Cardinality(lastCall.terms) - 1)
        /\ \A t, u \in lastCall.terms : LexLess(t, u) => vocab[t] < vocab[u]

\* a second BuildVocab, on a corpus with the terms add and dad
C13_Witness ==
    /\ lastCall.op = "BuildVocab" /\ calls = 2
    /\ lastCall.terms = {<<"a", "d", "d">>, <<"d", "a", "d">>}
    /\ vocab[<<"a", "d", "d">>] = 0 /\ vocab[<<"d", "a", "d">>] = 1

\* ------------------------------------------------- concurrent Embed calls
InitConc == ConcInit /\ ChunkIdle /\ TokIdle /\ ProvIdle /\ SearchIdle /\ Bm25Idle /\ WalkIdle /\ BucketIdle /\ SrvIdle /\ HttpIdle /\ SnipIdle /\ ProjIdle /\ IngestIdle /\ ReadIdle /\ PathIdle

SpecConc == InitConc /\ [][ConcNext]_vars

\* C4: no Embed call reads the vocabulary or the IDF table while another
\* call's BuildVocab is partway through writing it, and no call finds a term
\* that has its index but not yet its idf.
C4_NoReadOfHalfBuiltVocab ==
    /\ ~racyRead
    /\ \A t \in Threads : ~th[t].half

\* ------------------------------------------------------- lexical search
InitSearch == SearchInit /\ ChunkIdle /\ TokIdle /\ ProvIdle /\ ConcIdle /\ Bm25Idle /\ WalkIdle /\ BucketIdle /\ SrvIdle /\ HttpIdle /\ SnipIdle /\ ProjIdle /\ IngestIdle /\ ReadIdle /\ PathIdle

SpecSearch == InitSearch /\ [][SearchNext]_vars

InitBm25 == Bm25Init /\ ChunkIdle /\ TokIdle /\ ProvIdle /\ ConcIdle /\ SearchIdle /\ WalkIdle /\ BucketIdle /\ SrvIdle /\ HttpIdle /\ SnipIdle /\ ProjIdle /\ IngestIdle /\ ReadIdle /\ PathIdle

SpecBm25 == InitBm25 /\ [][Bm25Next]_vars

HitIDs == {lastSearch.hits[i].ID : i \in 1..Len(lastSearch.hits)}
HasQueryTerm(d) == Range(d.Terms) \cap Range(lastSearch.q) # {}

\* C7: a document that contains none of the query's terms does not appear in
\* the hits of a Search.
C7_NoHitWithoutQueryTerm ==
    \A i \in 1..Len(index.Docs) :
        ~HasQueryTerm(index.Docs[i]) => index.Docs[i].ID \notin HitIDs

\* C11: after buildIndex AvgDocLen is the sum of DocLen over the documents
\* divided by their number, and 0 when there is no document.
SumDocLen == SumOver(1..Len(index.Docs),
                     [i \in 1..Len(index.Docs) |-> index.DocLen[index.Docs[i].ID]])
C11_AvgDocLenIsMeanDocLen ==
    spc \in {"built", "searched"} =>
        IF Len(index.Docs) = 0 THEN index.AvgDocLen = <<0, 1>>
        ELSE index.AvgDocLen[1] * Len(index.Docs) = SumDocLen * index.AvgDocLen[2]

\* C12: a Search on an index without documents, or with a query that has no
\* terms, returns no hit and does not panic, whatever k is.
C12_NothingToSearchGivesNoHits ==
    (spc = "searched" /\ (Len(index.Docs) = 0 \/ lastSearch.q = <<>>)) =>
        (~lastSearch.panic /\ lastSearch.hits = <<>>)

Searched == spc = "searched" /\ ~lastSearch.panic
HitScore(i) == lastSearch.hits[i].Score

\* a Search whose only candidate id is shared by two files: the hit shows the
\* text of the one that has no query term
C7_Witness ==
    /\ Searched
    /\ Len(lastSearch.hits) = 1
    /\ Len(index.Docs) = 2
    /\ index.Docs[1].ID = index.Docs[2].ID
    /\ HasQueryTerm(index.Docs[1]) /\ ~HasQueryTerm(index.Docs[2])

\* C8 (as claimed): a Search that returns gives at most k hits, each with a
\* score strictly above the next hit's score.
C8_AtMostKStrictlyDescending ==
    Searched =>
        /\ Len(lastSearch.hits) <= lastSearch.k
        /\ \A i \in 1..(Len(lastSearch.hits) - 1) : FxLess(HitScore(i + 1), HitScore(i))

\* C8 (amended): Search panics exactly when k is negative; otherwise it returns
\* min(k, number of candidates) hits, of distinct candidate ids, no hit's
\* score is below the next hit's score, and no candidate left out scores above
\* a hit.
C8_AtMostKNonIncreasing ==
    spc = "searched" =>
        /\ lastSearch.panic <=> lastSearch.k < 0
        /\ ~lastSearch.panic =>
             /\ Len(lastSearch.hits) = Min(lastSearch.k, Cardinality(lastSearch.cands))
             /\ HitIDs \subseteq lastSearch.cands
             /\ Cardinality(HitIDs) = Len(lastSearch.hits)
             /\ \A i \in 1..(Len(lastSearch.hits) - 1) : FxLeq(HitScore(i + 1), HitScore(i))
             /\ \A i \in 1..Len(lastSearch.hits), j \in 1..Len(lastSearch.scores) :
                    lastSearch.scores[j].id \notin HitIDs
                        => FxLeq(lastSearch.scores[j].s, HitScore(i))

\* two candidates cut to k = 1: the hit scores above the candidate left out
C8_Witness ==
    /\ Searched
    /\ Cardinality(lastSearch.cands) = 2
    /\ lastSearch.k = 1
    /\ Len(lastSearch.hits) = 1
    /\ FxLess(lastSearch.scores[2].s, HitScore(1))

\* ------------------------------------------------------- bm25Score's term
NonDecreasing(h) == \A i, j \in 1..Len(h) : i < j => FxLeq(h[i], h[j])
NonIncreasing(h) == \A i, j \in 1..Len(h) : i < j => FxLeq(h[j], h[i])

\* C9 (as claimed): for fixed N, df, docLen and AvgDocLen the term's value
\* does not fall as tf grows.
C9_TermNonDecreasingInTf == NonDecreasing(bmHist)

\* C9 (amended): the term's value does not fall as tf grows when N > 2 * df
\* (the idf is positive), and does not rise as tf grows when N <= 2 * df (the
\* idf is negative).
C9_TermFollowsIdfSign ==
    bmHist # <<>> =>
        /\ bmArgs.N > 2 * bmArgs.df => NonDecreasing(bmHist)
        /\ bmArgs.N <= 2 * bmArgs.df => NonIncreasing(bmHist)

\* a positive idf (N = 5, df = 2): the value rises from tf = 1 to tf = MaxTf
C9_Witness ==
    /\ bmArgs # <<>>
    /\ bmArgs.N = 5 /\ bmArgs.df = 2 /\ bmArgs.docLen = 2
    /\ Len(bmHist) = MaxTf + 1
    /\ FxLess(bmHist[2], bmHist[MaxTf + 1])

\* ------------------------------------------------------- directory walk
InitWalk == WalkInit /\ ChunkIdle /\ TokIdle /\ ProvIdle /\ ConcIdle /\ SearchIdle /\ Bm25Idle /\ BucketIdle /\ SrvIdle /\ HttpIdle /\ SnipIdle /\ ProjIdle /\ IngestIdle /\ ReadIdle /\ PathIdle

SpecWalk == InitWalk /\ [][WalkNext]_vars

\* C14: the walk reads no file whose resolved path lies outside the root.
C14_NoReadOutsideRoot ==
    \A i \in 1..Len(wReads) : wReads[i].place = "inside"

\* ---------------------------------------------------------- hash bucket
InitBucket == BucketInit /\ ChunkIdle /\ TokIdle /\ ProvIdle /\ ConcIdle /\ SearchIdle /\ Bm25Idle /\ WalkIdle /\ SrvIdle /\ HttpIdle /\ SnipIdle /\ ProjIdle /\ IngestIdle /\ ReadIdle /\ PathIdle

SpecBucket == InitBucket /\ [][BucketNext]_vars

\* C16: the bucket of a vocabulary index and a seed is the sum of the first
\* three digest bytes of "<index>_<h>" modulo the dimension, and lies in [0, D).
C16_BucketIsByteSumModDim ==
    bkPos # -1 =>
        LET b == Md5Head[bkArgs.idx + 1][bkArgs.h + 1] IN
        /\ bkPos = (b[1] + b[2] + b[3]) % bkArgs.D
        /\ bkPos >= 0 /\ bkPos < bkArgs.D

\* index 0, seed 2, dim 10: the bytes 141, 229, 90 leave 1 + 9 + 0 = 10
C16_Witness ==
    /\ bkArgs = [idx |-> 0, h |-> 2, D |-> 10]
    /\ bkPos = 0

\* ----------------------------------------------------------- MCP server
InitSrv == SrvInit /\ ChunkIdle /\ TokIdle /\ ProvIdle /\ ConcIdle /\ SearchIdle /\ Bm25Idle /\ WalkIdle /\ BucketIdle /\ HttpIdle /\ SnipIdle /\ ProjIdle /\ IngestIdle /\ ReadIdle /\ PathIdle

SpecSrv == InitSrv /\ [][SrvNext]_vars

RepliesTo(i) == {j \in 1..Len(out) : out[j].msg = i}

\* C17: a notifications/initialized message gets no response, and the loop
\* goes on to read the next message.
C17_NoReplyToInitializedNotification ==
    \A i \in 1..Len(reads) :
        reads[i].method = "notifications/initialized" =>
            /\ RepliesTo(i) = {}
            /\ i = Len(reads) => srvPc = "serving"

\* initialize answered, the notification read and not answered, then
\* tools/list read and answered
C17_Witness ==
    /\ Len(reads) = 3
    /\ reads[1].method = "initialize"
    /\ reads[2].method = "notifications/initialized"
    /\ reads[3].method = "tools/list"
    /\ Len(out) = 2 /\ out[1].msg = 1 /\ out[2].msg = 3

\* C18: without degraded mode the Qdrant health check is attempted at most five
\* times and stops at the first success; the RAG initialisation and the request
\* loop come only after a successful check, and after five failures the process
\* exits without having served a request.
C18_HealthCheckAtMostFiveTimes ==
    ~noQdrant =>
        /\ Len(health) <= 5
        /\ \A i \in 1..(Len(health) - 1) : ~health[i]
        /\ (srvPc \in {"ragInit", "serving"} \/ rag = "ready" \/ reads # <<>>) =>
              (health # <<>> /\ health[Len(health)])
        /\ (Len(health) = 5 /\ ~health[5]) =>
              (srvPc = "exited" /\ rag = "nil" /\ reads = <<>> /\ out = <<>>)

\* four failed checks, the fifth succeeds, a request is served
C18_Witness ==
    /\ ~noQdrant
    /\ health = <<FALSE, FALSE, FALSE, FALSE, TRUE>>
    /\ rag = "ready"
    /\ Len(reads) = 1 /\ Len(out) = 1

\* a call of tool t: a tools/call message whose params decode and name t
CallsTool(msg, t) == msg.method = "tools/call" /\ msg.paramsOk /\ msg.tool = t
AnswersTo(i) ==
    LET s == SelectSeq(out, LAMBDA o : o.msg = i)
    IN [j \in 1..Len(s) |-> [kind |-> s[j].kind, code |-> s[j].code]]

\* C19: in degraded mode the RAG system stays uninitialized; initialize,
\* tools/list and status_get are answered with a result, and every rag_index,
\* rag_search and rag_projects call is answered with error -32001 and calls no
\* VecRAG method.
C19_DegradedModeAnswersNotInitialized ==
    noQdrant =>
        /\ rag = "nil"
        /\ health = <<>>
        /\ ragCalls = 0
        /\ \A i \in 1..Len(reads) :
              /\ (reads[i].method \in {"initialize", "tools/list"}
                    \/ CallsTool(reads[i], "status_get")) =>
                        AnswersTo(i) = <<Result>>
              /\ (\E t \in RagTools : CallsTool(reads[i], t)) =>
                        AnswersTo(i) = <<ErrorReply(-32001)>>

\* degraded mode: tools/list, a rag_search with a query, status_get
C19_Witness ==
    /\ noQdrant
    /\ Len(reads) = 3
    /\ reads[1].method = "tools/list"
    /\ CallsTool(reads[2], "rag_search") /\ reads[2].query = "q"
    /\ CallsTool(reads[3], "status_get")
    /\ AnswersTo(2) = <<ErrorReply(-32001)>>
    /\ probes = 1

\* ------------------------------------------------------------- HTTP API
InitHttp == HttpInit /\ ChunkIdle /\ TokIdle /\ ProvIdle /\ ConcIdle /\ SearchIdle /\ Bm25Idle /\ WalkIdle /\ BucketIdle /\ SrvIdle /\ SnipIdle /\ ProjIdle /\ IngestIdle /\ ReadIdle /\ PathIdle

SpecHttp == InitHttp /\ [][HttpNext]_vars

\* the token of an Authorization header of scheme Bearer
IsBearer(h) == HasPrefix(ToLower(h), BearerPrefix)
BearerToken(h) == TrimSpace(SubSeq(h, 8, Len(h)))
CorrectBearer(r, token) == IsBearer(r.Authorization) /\ BearerToken(r.Authorization) = token
CorrectXAPIKey(r, token) == r.XAPIKey = token

InitSnip == SnipInit /\ ChunkIdle /\ TokIdle /\ ProvIdle /\ ConcIdle /\ SearchIdle /\ Bm25Idle /\ WalkIdle /\ BucketIdle /\ SrvIdle /\ HttpIdle /\ ProjIdle /\ IngestIdle /\ ReadIdle /\ PathIdle

SpecSnip == InitSnip /\ [][SnipNext]_vars

\* the window of max characters around place p of the text
WindowAt(text, p, max) ==
    LET from == IF p - (max \div 3) < 0 THEN 0 ELSE p - (max \div 3)
        to == IF from + max > Len(text) THEN Len(text) ELSE from + max
    IN [start |-> from, end |-> to]
FirstChars(text, max) == IF Len(text) <= max THEN text ELSE SubSeq(text, 1, max)
Occurs(s, t) == \E i \in 0..(Len(s) - Len(t)) : SubSeq(s, i + 1, i + Len(t)) = t
\* the window holds at most max characters of the text
AtMostMax(o, max) == o.end - o.start <= max

InitProj == ProjInit /\ ChunkIdle /\ TokIdle /\ ProvIdle /\ ConcIdle /\ SearchIdle /\ Bm25Idle /\ WalkIdle /\ BucketIdle /\ SrvIdle /\ HttpIdle /\ SnipIdle /\ IngestIdle /\ ReadIdle /\ PathIdle

SpecProj == InitProj /\ [][ProjNext]_vars

\* the projects whose name starts with the prefix, whatever the letters' case
Matching(names, prefix) == {x \in names : HasPrefix(ToLower(x), ToLower(prefix))}
IsSortedByName(list) == \A i, j \in 1..Len(list) : i < j => StringLess(list[i], list[j])
\* the pages at offsets 0, limit, 2*limit, ... of a listing, one after another
RECURSIVE PagesFrom(_, _, _, _)
PagesFrom(names, prefix, k, step) ==
    LET r == ListProjectsFiltered(names, prefix, I64(k), I64(step))
    IN IF r.panic \/ r.page = <<>> THEN <<>>
       ELSE r.page \o PagesFrom(names, prefix, k + step, step)

\* C22: total is the number of projects whose name starts with the prefix
\* case-insensitively, the page is [offset, min(offset + limit, total)) of the
\* name-sorted list of them (limit <= 0 means 50, an offset beyond total gives
\* an empty page), and the pages at offsets 0, limit, 2*limit, ... hold every
\* filtered project once, in order.
C22_PageOfSortedFilteredProjects ==
    lpOut # <<>> =>
        LET match == Matching(lpArgs.names, lpArgs.prefix)
            sorted == ListProjects(match)
            off == Max(0, Small(lpArgs.offset))
            lim == IF lpArgs.limit = MaxInt64 THEN Cardinality(match) + 1
                   ELSE IF Small(lpArgs.limit) <= 0 THEN 50 ELSE Small(lpArgs.limit)
        IN /\ ~lpOut.panic
           /\ lpOut.total = Cardinality(match)
           /\ IsSortedByName(lpOut.page)
           /\ lpOut.page = SubSeq(sorted, off + 1, Min(off + lim, lpOut.total))
           /\ lpArgs.limit # MaxInt64 =>
                PagesFrom(lpArgs.names, lpArgs.prefix, 0, Max(1, IF Small(lpArgs.limit) <= 0 THEN 50 ELSE Small(lpArgs.limit))) = sorted

\* ------------------------------------------------------------ ingestion
InitIngest == IngestInit /\ ChunkIdle /\ TokIdle /\ ProvIdle /\ ConcIdle /\ SearchIdle /\ Bm25Idle /\ WalkIdle /\ BucketIdle /\ SrvIdle /\ HttpIdle /\ SnipIdle /\ ProjIdle /\ ReadIdle /\ PathIdle

SpecIngest == InitIngest /\ [][IngestNext]_vars

RECURSIVE Flatten(_)
Flatten(batches) ==
    IF batches = <<>> THEN <<>> ELSE Head(batches) \o Flatten(Tail(batches))
CountUp(k) == [i \in 1..k |-> i]
\* the batches whose UpsertPoints returned without error
Stored == IF igRet.err = "upsert error" THEN SubSeq(igUpserted, 1, Len(igUpserted) - 1)
          ELSE igUpserted

\* C23: every chunk goes to Embed and then to UpsertPoints once, in chunk
\* order, in consecutive batches of at most BatchSize chunks; the value
\* returned is the number of chunks upserted: all of them on success, those of
\* the batches before the failing one on a failure, after which no batch is
\* attempted.
C23_BatchesInOrderAndCounted ==
    /\ \A b \in 1..Len(igEmbedded) :
          Len(igEmbedded[b]) >= 1 /\ Len(igEmbedded[b]) <= igBatch
    /\ Flatten(igEmbedded) = CountUp(Len(Flatten(igEmbedded)))
    /\ igUpserted \in {igEmbedded, SubSeq(igEmbedded, 1, Len(igEmbedded) - 1)}
    /\ igPc = "returned" =>
          /\ igRet.n = Len(Flatten(Stored))
          /\ igRet.err = "nil" => (igRet.n = igN /\ Flatten(igUpserted) = CountUp(igN))
          /\ igRet.err = "embed error" => igUpserted = SubSeq(igEmbedded, 1, Len(igEmbedded) - 1)
          /\ igRet.err # "nil" => igRet.n = igBatch * (Len(igEmbedded) - 1)

\* five chunks in batches of two, the third batch's upsert fails: 4 is returned
C23_Witness ==
    /\ igPc = "returned"
    /\ igN = 5 /\ igBatch = 2
    /\ igEmbedded = <<<<1, 2>>, <<3, 4>>, <<5>>>>
    /\ igUpserted = igEmbedded
    /\ igRet = [n |-> 4, err |-> "upsert error"]

\* C24: for every message read that carries no id, whatever its method, the
\* server writes no response.
C24_NoReplyWithoutId ==
    \A i \in 1..Len(reads) :
        (reads[i].method \in PlainMethods \cup {"tools/call"} /\ reads[i].id = "nil") =>
            RepliesTo(i) = {}

\* C26: every request read that carries an id gets exactly one message on the
\* output, a result or an error, with the request's id, and the responses are
\* written in the order of the requests.
C26_OneReplyPerRequestInOrder ==
    /\ \A i \in 1..Len(reads) :
          (reads[i].method \in PlainMethods \cup {"tools/call"} /\ reads[i].id # "nil") =>
              /\ Cardinality(RepliesTo(i)) = 1
              /\ \A j \in RepliesTo(i) :
                    out[j].id = reads[i].id /\ out[j].kind \in {"result", "error"}
    /\ \A j, k \in 1..Len(out) : j < k => out[j].msg < out[k].msg

\* C25: the chunks of one MakeChunks run carry pairwise distinct ids, also when
\* they come from different files in different directories under the root.
C25_ChunkIdsDistinct ==
    spc \in {"built", "searched"} =>
        \A i, j \in 1..Len(index.Docs) :
            i # j => index.Docs[i].ID # index.Docs[j].ID

\* ================================================================ StdioRPC.Read: specification and claims

InitRead == ReadInit /\ ChunkIdle /\ TokIdle /\ ProvIdle /\ ConcIdle /\ SearchIdle /\ Bm25Idle /\ WalkIdle /\ BucketIdle /\ SrvIdle /\ HttpIdle /\ SnipIdle /\ ProjIdle /\ IngestIdle /\ PathIdle
SpecRead == InitRead /\ [][ReadNext]_vars

\* every line of stdin, in order
AllLines == [i \in 1..Len(stdinLines) |-> i]

\* the first Read found at least two whole lines waiting
SeveralAtOnce == Len(rdAvail) >= 1 /\ rdAvail[1] > stdinLines[1]

\* C27: when several complete requests are available on stdin at once, every
\* one of them has been returned by a Read call, in order, by the time a Read
\* reports EOF.
C27_NoRequestLostBetweenReads ==
    (rdEof /\ SeveralAtOnce) => rdReturned = AllLines

\* requests that arrive one at a time, each read before the next is written,
\* are all returned
C27_NoRequestLostOneAtATime ==
    (rdEof /\ \A k \in 1..Len(rdAvail) : rdAvail[k] = stdinLines[rdReturned[k]])
        => rdReturned = AllLines

\* ------------------------------------------------- lazy build and frame of Embed
EmbedStep == lastCall'.op = "Embed" /\ calls' = calls + 1

\* C28: an Embed call on a provider whose vocabulary is empty builds the
\* vocabulary and the IDF table from exactly that call's texts; an Embed call
\* on a provider whose vocabulary is not empty leaves every vocabulary and IDF
\* entry as it was.
C28_EmbedBuildsOnceThenLeavesVocab ==
    [][EmbedStep =>
        IF DOMAIN vocab = {}
          THEN LET texts == lastCall'.texts
                   terms == VocabSet(texts)
               IN /\ DOMAIN vocab' = terms
                  /\ DOMAIN idf' = terms
                  /\ \A t \in terms :
                        /\ vocab'[t] = SortedIndex(terms, t)
                        /\ idf'[t] = IdfArg(Len(texts), DocFreq(TermSets(texts), t))
          ELSE vocab' = vocab /\ idf' = idf]_vars

\* a second call, an Embed of a text with a term the vocabulary built by the
\* first call does not hold
C28_Witness ==
    /\ lastCall.op = "Embed" /\ ~lastCall.wasEmpty /\ calls = 2
    /\ ~(lastCall.terms \subseteq DOMAIN vocab)
    /\ DOMAIN vocab = DOMAIN idf

\* ------------------------------------------------- vocabulary after a rebuild
\* C29: after a BuildVocab call the vocabulary and the IDF table hold exactly
\* the terms of that call's corpus, no two terms share an index and every
\* index is in 0 .. vocabSize-1.
C29_VocabIsMostRecentCorpus ==
    lastCall.op = "BuildVocab" =>
        /\ DOMAIN vocab = lastCall.terms
        /\ DOMAIN idf = lastCall.terms
        /\ \A t, u \in DOMAIN vocab : vocab[t] = vocab[u] => t = u
        /\ \A t \in DOMAIN vocab : vocab[t] \in 0..(vocabSize - 1)

\* ================================================================ project of a path: specification and claims

InitPath == PathInit /\ ChunkIdle /\ TokIdle /\ ProvIdle /\ ConcIdle /\ SearchIdle /\ Bm25Idle /\ WalkIdle /\ BucketIdle /\ SrvIdle /\ HttpIdle /\ SnipIdle /\ ProjIdle /\ IngestIdle /\ ReadIdle
SpecPath == InitPath /\ [][PathNext]_vars

\* C30: the three derivations return the same project for every path.
C30_ThreeDerivationsAgree ==
    pjOut # <<>> => (pjOut.ragvec = pjOut.main /\ pjOut.main = pjOut.http)

\* the two derivations built on filepath.Dir and filepath.Base agree
C30_RagvecAndMainAgree ==
    pjOut # <<>> => pjOut.ragvec = pjOut.main

\* ./d/r (./docs/readme.md) is of project d in all three
C30_ReadmeExample ==
    (pjOut # <<>> /\ pjPath = <<".", "/", "d", "/", "r">>) =>
        (pjOut.ragvec = <<"d">> /\ pjOut.main = <<"d">> /\ pjOut.http = <<"d">>)

====
